---- MODULE Spec2Model ----
(***************************************************************************)
(* Reconciliation engine of obsidian-hugo-sync: the daemon that mirrors    *)
(* the published notes of an Obsidian vault into a Hugo content tree.      *)
(*                                                                         *)
(* Text (file names, UIDs, front-matter values) is a sequence of           *)
(* one-character strings, so that slugging, quoting and the read-back of   *)
(* the embedded identity are computed as the code computes them.           *)
(***************************************************************************)
EXTENDS Integers, Sequences, FiniteSets, TLC

(***************************************************************************)
(* Bounds of the model.                                                    *)
(***************************************************************************)
\* external changes to the vault (edits, renames, removals)
MaxEdits == 2
\* daemon starts (each start runs one full pass)
MaxRuns == 2
\* length of the longest file name handed to createSlug
MaxNameLen == 56
\* the file operations of one step of the daemon that a fault may hit: the
\* first MaxFaultOp
MaxFaultOp == 3
\* the events fsnotify reports while one process runs
MaxFsEvents == 3
\* the notifications watcher.events holds in the model (the channel of the
\* code holds 100)
MaxQueued == 2
\* the processes started on one vault
MaxProcs == 3

(***************************************************************************)
(* Characters and strings.                                                 *)
(***************************************************************************)
Upper == <<"A","B","C","D","E","F","G","H","I","J","K","L","M",
           "N","O","P","Q","R","S","T","U","V","W","X","Y","Z">>
Lower == <<"a","b","c","d","e","f","g","h","i","j","k","l","m",
           "n","o","p","q","r","s","t","u","v","w","x","y","z">>
Digits == <<"0","1","2","3","4","5","6","7","8","9">>

Range(s) == { s[i] : i \in DOMAIN s }

\* strings.ToLower on one character
ToLowerChar(c) ==
    IF c \in Range(Upper)
    THEN Lower[CHOOSE i \in DOMAIN Upper : Upper[i] = c]
    ELSE c

\* strings.ToLower
ToLower(s) == [i \in DOMAIN s |-> ToLowerChar(s[i])]

\* the character class [a-z0-9]
IsSlugChar(c) == c \in Range(Lower) \cup Range(Digits)

HasSuffix(s, suf) ==
    /\ Len(s) >= Len(suf)
    /\ SubSeq(s, Len(s) - Len(suf) + 1, Len(s)) = suf

HasPrefix(s, pre) ==
    /\ Len(s) >= Len(pre)
    /\ SubSeq(s, 1, Len(pre)) = pre

\* strings.TrimSuffix
TrimSuffix(s, suf) ==
    IF HasSuffix(s, suf) THEN SubSeq(s, 1, Len(s) - Len(suf)) ELSE s

\* regexp `[^a-z0-9]+` ReplaceAllString(slug, "-"): every maximal run of
\* characters outside [a-z0-9] becomes one hyphen
RECURSIVE ReplaceNonSlugRuns(_)
ReplaceNonSlugRuns(s) ==
    IF s = <<>> THEN <<>>
    ELSE IF IsSlugChar(Head(s)) THEN <<Head(s)>> \o ReplaceNonSlugRuns(Tail(s))
    ELSE IF Len(s) > 1 /\ ~IsSlugChar(s[2]) THEN ReplaceNonSlugRuns(Tail(s))
    ELSE <<"-">> \o ReplaceNonSlugRuns(Tail(s))

\* strings.Trim(slug, "-")
RECURSIVE TrimHyphens(_)
TrimHyphens(s) ==
    IF s = <<>> THEN s
    ELSE IF Head(s) = "-" THEN TrimHyphens(Tail(s))
    ELSE IF s[Len(s)] = "-" THEN TrimHyphens(SubSeq(s, 1, Len(s) - 1))
    ELSE s

MD == <<".","m","d">>
Untitled == <<"u","n","t","i","t","l","e","d">>

\* createSlug slices noteUID[:8]: with a shorter UID the slice is out of range
createSlugPanics(filename, noteUID) ==
    /\ Len(TrimHyphens(ReplaceNonSlugRuns(ToLower(TrimSuffix(filename, MD))))) > 50
    /\ Len(noteUID) < 8

\* a createSlug that truncates from 50 characters on instead of above 50
createSlugFrom50(filename, noteUID) ==
    LET name == TrimSuffix(filename, MD)
        trimmed == TrimHyphens(ReplaceNonSlugRuns(ToLower(name)))
        slug == IF trimmed = <<>> THEN Untitled ELSE trimmed
        uid8 == IF Len(noteUID) < 8 THEN noteUID ELSE SubSeq(noteUID, 1, 8)
    IN  IF Len(slug) >= 50
        THEN SubSeq(slug, 1, 42) \o <<"-">> \o uid8 \o MD
        ELSE slug \o MD

\* createSlug: a URL-friendly slug from a file name
createSlug(filename, noteUID) ==
    LET name == TrimSuffix(filename, MD)
        trimmed == TrimHyphens(ReplaceNonSlugRuns(ToLower(name)))
        slug == IF trimmed = <<>> THEN Untitled ELSE trimmed
    IN  IF Len(slug) > 50
        THEN SubSeq(slug, 1, 42) \o <<"-">> \o SubSeq(noteUID, 1, 8) \o MD
        ELSE slug \o MD


(***************************************************************************)
(* Configuration.                                                          *)
(***************************************************************************)
\* config.Load default: auto_weight
AutoWeight == TRUE
\* config.Load default: unpublished_link
UnpublishedLink == "text"
\* images.NewManager: gracePeriod = 24h, in clock units of 24h
GracePeriod == 1
\* the clock runs from 0 until the grace period of an image as old as the
\* clock has elapsed
MaxTime == GracePeriod + 1

(***************************************************************************)
(* The vault: source paths, documents and images.                          *)
(***************************************************************************)
NoUid == <<>>
NoLink == <<>>
NoTitle == <<>>
\* filepath.Dir of a note at the vault root
RootDir == <<>>
NotesDir == <<"n","o","t","e","s">>
PostsDir == <<"p","o","s","t","s">>
IndexName == <<"_","i","n","d","e","x",".","m","d">>
PicName == <<"p","i","c",".","p","n","g">>

PIntro == [dir |-> RootDir, base |-> <<"I","n","t","r","o",".","m","d">>]
PA == [dir |-> NotesDir, base |-> <<"a",".","m","d">>]
PB == [dir |-> NotesDir, base |-> <<"b",".","m","d">>]
SrcPaths == {PIntro, PA, PB}
\* the order in which filepath.Walk visits the vault, and of sort.Slice by Path
PathOrder == <<PIntro, PA, PB>>

Stem(p) == TrimSuffix(p.base, MD)

\* an identity already present in a note's front-matter
KnownUid == <<"k","0">>
\* the n-th identity uuid.New() hands out
FreshUid(n) == <<"u", Digits[n + 1]>>
UidPool == Len(Digits)

\* the image a note references as ![](pic.png), resolved against its directory
ImageRefPath(dir) == [root |-> "vault", dir |-> dir, name |-> PicName]
\* image files of the vault, with their modification time
VaultImages == (ImageRefPath(NotesDir) :> 0)

VARIABLES
    vault,            \* source path -> document (front-matter and body)
    out,              \* output location -> Hugo file of the content tree
    assets,           \* output image path -> modification time
    notes,            \* state.Manager: UID -> Note entry
    images,           \* state.Manager: image path -> UIDs referencing it
    saved,            \* the state file on disk
    slugMap,          \* hugo.Generator: link target -> output location
    needsLinkUpdate,  \* Daemon.needsLinkUpdate
    queue,            \* watcher.events, in arrival order
    now,              \* the clock
    running,          \* Daemon.isRunning
    dryRun,           \* config.DryRun of the current run
    uids,             \* identities handed out by uuid.New() so far
    assigned,         \* history: source path -> identities EnsureUID gave its document
    srcChanged,       \* history: the vault was edited since the last full pass
    edits,            \* external edits so far
    runs,             \* daemon starts so far
    pass,             \* history: what the last dispatch step did
    faults,           \* what the operating system refuses in the next step of the daemon
    cancelled,        \* main: cancel() was called, ctx.Done() is closed
    ticked,           \* syncTicker.C: whether a tick waits, and how many of the
                      \* notifications queued when it fired are still queued
    slugCase,         \* a call of Generator.createSlug: its arguments and its result
    linkCase,         \* a call of Generator.convertWikiLink: generator, match and result
    bodyCase,         \* a call of Generator.processWikiLinks: the body and what it became
    mapCase,          \* a call of Generator.UpdateSlugMap: the notes, the map and a lookup
    refCase,          \* state.Manager on its own: the image references and the calls made
    stateFile,        \* state.Manager on its own: the file state.json of the cache directory
    tempFile,         \* the file state.json.tmp
    manager,          \* the Manager of the running process: its State and where Save is
    storeCall,        \* the last call of the Manager and what it returned
    threads,          \* the goroutines of one process: where each is and what it touches
    lock              \* process.AcquireLock: the lock file of a vault and the processes at it

daemonVars == <<vault, out, assets, notes, images, saved, slugMap, needsLinkUpdate,
                queue, now, running, dryRun, uids, assigned, srcChanged, edits, runs, pass,
                faults, cancelled, ticked>>

\* the calls looked at on their own
storeVars == <<stateFile, tempFile, manager, storeCall>>

\* the goroutines of a process and the processes of a vault, looked at on their own
procVars == <<threads, lock>>

unitVars == <<slugCase, linkCase, bodyCase, mapCase, refCase, storeVars, procVars>>

vars == <<daemonVars, unitVars>>

(***************************************************************************)
(* Maps with a changing key set.                                           *)
(***************************************************************************)
EmptyMap == <<>>
Put(f, k, v) == [x \in DOMAIN f \cup {k} |-> IF x = k THEN v ELSE f[x]]
Drop(f, k) == [x \in DOMAIN f \ {k} |-> f[x]]

(***************************************************************************)
(* state.Manager: the identity and change-detection store.                 *)
(***************************************************************************)
\* CalculateContentHash(note.Raw): the bytes of the file, front-matter and body
Raw(d) == <<d.uid, d.title, d.pub, d.weight, d.link, d.img>>
CalculateContentHash(raw) == <<"sha256", raw>>

\* a NeedsSync that also reports a note modified at the instant of its last sync
NeedsSyncLoose(ns, uid, filePath, modTime, contentHash) ==
    IF uid \notin DOMAIN ns THEN TRUE
    ELSE IF ns[uid].src # filePath THEN TRUE
    ELSE IF ns[uid].hash # contentHash THEN TRUE
    ELSE modTime >= ns[uid].lastSync

\* Manager.NeedsSync: no entry, another path, another hash, or modified after
\* the last sync
NeedsSync(ns, uid, filePath, modTime, contentHash) ==
    IF uid \notin DOMAIN ns THEN TRUE
    ELSE IF ns[uid].src # filePath THEN TRUE
    ELSE IF ns[uid].hash # contentHash THEN TRUE
    ELSE modTime > ns[uid].lastSync

\* an AddImageReference that appends without looking for the reference
AddImageReferenceAgain(im, imagePath, noteUID) ==
    LET refs == IF imagePath \in DOMAIN im THEN im[imagePath] ELSE <<>>
    IN  Put(im, imagePath, Append(refs, noteUID))

\* AddImageReference: append the UID unless it is listed
AddImageReference(im, imagePath, noteUID) ==
    LET refs == IF imagePath \in DOMAIN im THEN im[imagePath] ELSE <<>>
    IN  IF noteUID \in Range(refs) THEN im
        ELSE Put(im, imagePath, Append(refs, noteUID))

\* RemoveImageReference: drop the first occurrence, and the entry once empty
RemoveImageReference(im, imagePath, noteUID) ==
    LET refs == IF imagePath \in DOMAIN im THEN im[imagePath] ELSE <<>>
        i == IF noteUID \in Range(refs)
             THEN CHOOSE k \in DOMAIN refs :
                      refs[k] = noteUID /\ \A j \in 1..(k - 1) : refs[j] # noteUID
             ELSE 0
        left == IF i = 0 THEN refs
                ELSE SubSeq(refs, 1, i - 1) \o SubSeq(refs, i + 1, Len(refs))
    IN  IF left = <<>> THEN Drop(im, imagePath) ELSE Put(im, imagePath, left)

(***************************************************************************)
(* vault.Note.                                                              *)
(***************************************************************************)
\* ParseNote: the note read from the file at p
ParseNote(v, p) ==
    LET d == v[p]
    IN  [path |-> p, uid |-> d.uid,
         title |-> IF d.title = NoTitle THEN Stem(p) ELSE d.title,
         pub |-> d.pub, weight |-> d.weight, link |-> d.link, img |-> d.img,
         mtime |-> d.mtime, raw |-> Raw(d)]

\* ExtractImageReferences: the image paths of the body, joined to the note's directory
ExtractImageReferences(note) ==
    IF note.img THEN {ImageRefPath(note.path.dir)} ELSE {}

(***************************************************************************)
(* hugo.Generator: output locations, links and serialized files.           *)
(***************************************************************************)
\* generateHugoPath: contentDir/<dir>/<slug>, root notes under posts
generateHugoPath(notePath, noteUID) ==
    [dir |-> IF notePath.dir = RootDir THEN PostsDir ELSE notePath.dir,
     file |-> createSlug(notePath.base, noteUID)]

\* Daemon.calculateHugoPath: contentDir/<base name>
calculateHugoPath(note) ==
    [dir |-> RootDir, file |-> TrimSuffix(note.path.base, MD) \o MD]

\* Daemon.calculateNoteWeight: 100 + 10 per directory level
calculateNoteWeight(notePath) ==
    100 + (IF notePath.dir = RootDir THEN 0 ELSE 1) * 10

\* convertToHugoURL on a directory: lowercase, spaces and underscores to hyphens
convertToHugoURL(dir) ==
    [i \in DOMAIN dir |->
        IF dir[i] \in {" ", "_"} THEN "-" ELSE ToLowerChar(dir[i])]

\* the slug-map value of an output location: path below content/, directories
\* in URL form, without the .md extension
RelPath(hugoPath) ==
    [dir |-> convertToHugoURL(hugoPath.dir), file |-> TrimSuffix(hugoPath.file, MD)]

\* UpdateSlugMap: rebuilt from the published notes, visited in the order given
\* (Go map iteration order); a later note overwrites an equal key
RECURSIVE UpdateSlugMapFrom(_, _, _)
UpdateSlugMapFrom(m, publishedNotes, order) ==
    IF order = <<>> THEN m
    ELSE LET note == publishedNotes[Head(order)]
             filename == Stem(note.path)
             relPath == RelPath(generateHugoPath(note.path, note.uid))
             m1 == Put(m, filename, relPath)
             m2 == IF note.title # filename THEN Put(m1, note.title, relPath) ELSE m1
         IN  UpdateSlugMapFrom(IF note.pub THEN m2 ELSE m, publishedNotes, Tail(order))

UpdateSlugMap(publishedNotes, order) ==
    UpdateSlugMapFrom(EmptyMap, publishedNotes, order)

\* every order in which a Go map with these keys may be iterated
Orders(keys) ==
    { o \in [1..Cardinality(keys) -> keys] : \A k \in keys : \E i \in DOMAIN o : o[i] = k }

NoRef == [kind |-> "none", dir |-> <<>>, file |-> <<>>]

\* convertWikiLink: the link of a published target, else text or "#"
convertWikiLink(sm, target) ==
    IF target = NoLink THEN NoRef
    ELSE IF target \in DOMAIN sm
         THEN [kind |-> "link", dir |-> sm[target].dir, file |-> sm[target].file]
         ELSE IF UnpublishedLink = "hash"
              THEN [kind |-> "hash", dir |-> <<>>, file |-> <<>>]
              ELSE [kind |-> "text", dir |-> <<>>, file |-> <<>>]

\* fmt %q of a plain string
Quote(s) == <<"\"">> \o s \o <<"\"">>

\* HugoContent.Serialize: title, weight, noteUid (quoted), lastUpdated, body
Serialize(title, weight, noteUID, lastUpdated, ref) ==
    [title |-> Quote(title), weight |-> weight, noteUid |-> Quote(noteUID),
     lastUpdated |-> lastUpdated, ref |-> ref]

\* GenerateContent: path and serialized content of a note
GenerateContent(sm, note, t) ==
    [path |-> generateHugoPath(note.path, note.uid),
     file |-> Serialize(note.title, calculateNoteWeight(note.path), note.uid, t,
                        convertWikiLink(sm, note.link))]

\* strings.Title of a one-word directory name
Title(dir) ==
    [i \in DOMAIN dir |->
        IF i = 1 /\ dir[i] \in Range(Lower)
        THEN Upper[CHOOSE k \in DOMAIN Lower : Lower[k] = dir[i]]
        ELSE dir[i]]

\* CalculateFolderWeight of content/docs/<dir>: 100 per path level
CalculateFolderWeight(dir) == 100 * (2 + 1)

\* GenerateIndexFile: the _index.md of a section, without identity
GenerateIndexFile(dir, t) ==
    [path |-> [dir |-> dir, file |-> IndexName],
     file |-> Serialize(Title(dir), CalculateFolderWeight(dir), NoUid, t, NoRef)]

\* an extractNoteUidFromHugoFile that unquotes the value it reads
extractNoteUidUnquoted(f) ==
    IF Len(f.noteUid) >= 2 /\ Head(f.noteUid) = "\"" /\ f.noteUid[Len(f.noteUid)] = "\""
    THEN SubSeq(f.noteUid, 2, Len(f.noteUid) - 1)
    ELSE f.noteUid

\* extractNoteUidFromHugoFile: the text after "noteUid:" of the front-matter, trimmed
extractNoteUidFromHugoFile(f) == f.noteUid

(***************************************************************************)
(* The daemon's steps, as functions of a world w: the vault, the content   *)
(* tree, the store, the generator's slug map, the event queue and the      *)
(* record of the running step.                                             *)
(***************************************************************************)
\* no fault: every file can be read and written
NoFaults == [parse |-> {}, ops |-> {}, save |-> FALSE]

\* the world carries the faults of the step, the number of operations on the
\* files of the content tree the step has tried (ops), and whether the last
\* of them returned an error (err)
World ==
    [vault |-> vault, out |-> out, assets |-> assets, notes |-> notes,
     images |-> images, saved |-> saved, slugMap |-> slugMap,
     needsLinkUpdate |-> needsLinkUpdate, queue |-> queue, uids |-> uids,
     assigned |-> assigned, pass |-> pass, faults |-> faults, ops |-> 0,
     err |-> FALSE]

\* the record of a step that has done nothing yet
NewPass(kind) ==
    [kind |-> kind,
     published |-> EmptyMap,  \* full pass: UID -> source path of the notes classified published
     srcSame |-> FALSE,       \* full pass: no vault edit since the previous full pass,
                              \* which ran with the same --dry-run setting
     written |-> {},          \* output locations written
     rendered |-> {},         \* source paths whose note was rendered and written
     deleted |-> {},          \* files deleted from the content tree: location and content
     renamed |-> {},          \* renames of published notes processNote detected
     sweep |-> {},            \* assets the image sweep examined
     seen |-> {},             \* source paths handed to processNote
     failed |-> {},           \* notes whose processing or regeneration returned an error
     aborted |-> FALSE,       \* performFullSync returned an error
     steps |-> {},            \* full pass: the steps run after the regeneration
     saveFailed |-> FALSE,    \* Save returned an error
     store |-> [notes |-> EmptyMap, images |-> EmptyMap]]
                              \* the store in memory when Save was called

Event(path, op) == [path |-> path, op |-> op]

\* the operation the step tries next is one the operating system refuses
OpFails(w) == (w.ops + 1) \in w.faults.ops

\* os.WriteFile into the content tree
WriteHugoFile(w, loc, f) ==
    IF OpFails(w)
    THEN [w EXCEPT !.ops = @ + 1, !.err = TRUE]
    ELSE [w EXCEPT !.ops = @ + 1, !.err = FALSE,
                   !.out = Put(@, loc, f), !.pass.written = @ \cup {loc}]

\* os.Remove in the content tree (empty directories go with the last file)
RemoveHugoFile(w, loc) ==
    IF loc \notin DOMAIN w.out THEN [w EXCEPT !.err = FALSE]
    ELSE IF OpFails(w)
         THEN [w EXCEPT !.ops = @ + 1, !.err = TRUE]
         ELSE [w EXCEPT !.ops = @ + 1, !.err = FALSE,
                        !.out = Drop(@, loc),
                        !.pass.deleted = @ \cup {[loc |-> loc, file |-> w.out[loc]]}]

\* writeNoteToVault: the front-matter with UID and weight, written to the source
\* file; the watcher reports the write
writeNoteToVault(w, note, t, dry) ==
    IF dry THEN w
    ELSE [w EXCEPT !.vault[note.path] =
                       [@ EXCEPT !.uid = note.uid, !.weight = note.weight, !.mtime = t],
                   !.queue = Append(@, Event(note.path, "Write"))]

\* images.Manager.CopyImage: the result, and the content tree after it
CopyImageOk(vaultImagePath, dry) == dry \/ vaultImagePath \in DOMAIN VaultImages

\* calculateHugoImagePath: contentDir/<path relative to the vault>
calculateHugoImagePath(vaultImagePath) ==
    [root |-> "content", dir |-> vaultImagePath.dir, name |-> vaultImagePath.name]

CopyImage(as, vaultImagePath, dry) ==
    IF dry \/ vaultImagePath \notin DOMAIN VaultImages THEN as
    ELSE LET dst == calculateHugoImagePath(vaultImagePath)
         IN  IF dst \in DOMAIN as /\ as[dst] = VaultImages[vaultImagePath] THEN as
             ELSE Put(as, dst, VaultImages[vaultImagePath])

\* processNoteImages: copy each referenced image, then track the reference
RECURSIVE processNoteImagesOf(_, _, _, _)
processNoteImagesOf(w, note, refs, dry) ==
    IF refs = {} THEN w
    ELSE LET r == CHOOSE x \in refs : TRUE
             w1 == IF CopyImageOk(r, dry)
                   THEN [w EXCEPT !.assets = CopyImage(@, r, dry),
                                  !.images = AddImageReference(@, r, note.uid)]
                   ELSE w
         IN  processNoteImagesOf(w1, note, refs \ {r}, dry)

processNoteImages(w, note, dry) ==
    processNoteImagesOf(w, note, ExtractImageReferences(note), dry)

\* removeNoteImageReferences
RECURSIVE removeNoteImageReferencesOf(_, _, _)
removeNoteImageReferencesOf(w, note, refs) ==
    IF refs = {} THEN w
    ELSE LET r == CHOOSE x \in refs : TRUE
         IN  removeNoteImageReferencesOf(
                 [w EXCEPT !.images = RemoveImageReference(@, r, note.uid)],
                 note, refs \ {r})

removeNoteImageReferences(w, note) ==
    removeNoteImageReferencesOf(w, note, ExtractImageReferences(note))

\* ensureAllSectionIndexes: an _index.md for the section of dir, unless dir is
\* the content root or the index exists
ensureAllSectionIndexes(w, dir, t, dry) ==
    LET idx == GenerateIndexFile(dir, t)
    IN  IF dir = RootDir \/ idx.path \in DOMAIN w.out \/ dry THEN w
        ELSE [WriteHugoFile(w, idx.path, idx.file) EXCEPT !.err = FALSE]

\* publishNote after the file is written: copy images, ensure the section index
publishWritten(w, note, dir, t, dry) ==
    ensureAllSectionIndexes(processNoteImages(w, note, dry), dir, t, dry)

\* publishNote after os.WriteFile returned: its error, or the rest
publishAfterWrite(w, note, dir, t, dry) ==
    IF w.err THEN w
    ELSE publishWritten([w EXCEPT !.pass.rendered = @ \cup {note.path}], note, dir, t, dry)

\* publishNote: render, write, copy images, ensure the section index; the
\* error of the write is returned (err)
publishNote(w, note, t, dry) ==
    LET hugoContent == GenerateContent(w.slugMap, note, t)
    IN  IF dry
        THEN publishWritten([w EXCEPT !.err = FALSE], note, hugoContent.path.dir, t, dry)
        ELSE publishAfterWrite(WriteHugoFile(w, hugoContent.path, hugoContent.file),
                               note, hugoContent.path.dir, t, dry)

\* unpublishNote after os.Remove returned: its error, or the image references
\* are dropped
unpublishAfterRemove(w, note) ==
    IF w.err THEN w ELSE removeNoteImageReferences(w, note)

\* unpublishNote: delete the file at calculateHugoPath, drop the image
\* references; the error of the removal is returned (err)
unpublishNote(w, note, dry) ==
    LET hugoPath == calculateHugoPath(note)
    IN  IF hugoPath \in DOMAIN w.out /\ ~dry
        THEN unpublishAfterRemove(RemoveHugoFile(w, hugoPath), note)
        ELSE removeNoteImageReferences([w EXCEPT !.err = FALSE], note)

\* an EnsureUID that generates an identity although the note has one
EnsureUIDAlways(note, n) == [changed |-> TRUE, uid |-> FreshUid(n)]

\* Note.EnsureUID: a new identity only when the note has none
EnsureUID(note, n) ==
    IF note.uid # NoUid THEN [changed |-> FALSE, uid |-> note.uid]
    ELSE [changed |-> TRUE, uid |-> FreshUid(n)]

\* the store entries processNote may replace for the note at p with identity uid
EntriesOf(ns, p, uid) ==
    [u \in { x \in DOMAIN ns : x = uid \/ ns[x].src = p } |-> ns[u]]

\* a processNote that records the note in the store before it returns the error
processNoteFailedStored(w, before, p, uid) ==
    [w EXCEPT !.err = FALSE,
              !.notes = Put(@, uid, [src |-> p, hugo |-> [dir |-> RootDir, file |-> p.base],
                                     lastMod |-> 0, lastSync |-> 0, pub |-> FALSE,
                                     hash |-> CalculateContentHash(<<>>)]),
              !.pass.seen = @ \cup {p},
              !.pass.failed = @ \cup {[path |-> p, uid |-> uid, phase |-> "process",
                                       before |-> before,
                                       after |-> EntriesOf(
                                           Put(w.notes, uid, [src |-> p]), p, uid)]}]

\* processNote returns an error for the note at p: the entries of the store
\* before the call and as the call leaves them are kept for the record
processNoteFailed(w, before, p, uid) ==
    [w EXCEPT !.err = FALSE,
              !.pass.seen = @ \cup {p},
              !.pass.failed = @ \cup {[path |-> p, uid |-> uid, phase |-> "process",
                                       before |-> before,
                                       after |-> EntriesOf(w.notes, p, uid)]}]

\* processNote after publishNote or unpublishNote returned in world w: their
\* error is returned; else the output of a renamed note is cleaned up and the
\* store is updated
processNoteSynced(w, before, note, hasOld, oldNote, contentHash, t, dry) ==
    IF w.err
    THEN [w |-> processNoteFailed(w, before, note.path, note.uid), ok |-> FALSE,
          note |-> note]
    ELSE
    LET p == note.path
        isRenamed == hasOld /\ oldNote.src # p
        w3 == IF isRenamed /\ oldNote.pub
              THEN LET wd == IF oldNote.hugo \in DOMAIN w.out /\ ~dry
                             THEN RemoveHugoFile(w, oldNote.hugo)
                             ELSE w
                   IN  [wd EXCEPT
                          !.needsLinkUpdate = @ \/ note.pub,
                          !.pass.renamed = @ \cup
                              {[uid |-> note.uid, from |-> oldNote.src, to |-> p,
                                pub |-> note.pub,
                                same |-> oldNote.hash = contentHash]}]
              ELSE w
    IN  [w |-> [w3 EXCEPT !.err = FALSE,
                          !.pass.seen = @ \cup {p},
                          !.notes = Put(@, note.uid,
                              [src |-> p, hugo |-> calculateHugoPath(note),
                               lastMod |-> note.mtime, lastSync |-> t,
                               pub |-> note.pub, hash |-> contentHash])],
         ok |-> TRUE, note |-> note]

\* processNote: parse, ensure the UID, decide by NeedsSync, write the
\* front-matter back, publish or unpublish, clean up after a rename, update
\* the store. The result carries the note, or ok = FALSE when processNote
\* returned an error.
processNote(w, p, t, dry) ==
    IF p \notin DOMAIN w.vault \/ p \in w.faults.parse
    THEN [w |-> processNoteFailed(w, EntriesOf(w.notes, p, NoUid), p, NoUid),
          ok |-> FALSE, note |-> [path |-> p]]
    ELSE
    LET parsed == ParseNote(w.vault, p)
        ensured == EnsureUID(parsed, w.uids)
        uidChanged == ensured.changed
        note0 == [parsed EXCEPT !.uid = ensured.uid]
        w0 == IF uidChanged
              THEN [w EXCEPT !.uids = @ + 1,
                             !.assigned[p] = @ \cup {ensured.uid}]
              ELSE w
        contentHash == CalculateContentHash(parsed.raw)
    IN  IF ~NeedsSync(w.notes, note0.uid, p, note0.mtime, contentHash) /\ ~uidChanged
        THEN [w |-> [w0 EXCEPT !.pass.seen = @ \cup {p}], ok |-> TRUE, note |-> note0]
        ELSE
        LET hasOld == note0.uid \in DOMAIN w.notes
            oldNote == IF hasOld THEN w.notes[note0.uid] ELSE [src |-> p, pub |-> FALSE]
            frontMatterChanged == AutoWeight /\ ~note0.weight
            note == [note0 EXCEPT !.weight = @ \/ AutoWeight]
            w1 == IF uidChanged \/ frontMatterChanged
                  THEN writeNoteToVault(w0, note, t, dry)
                  ELSE w0
        IN  processNoteSynced(IF note.pub THEN publishNote(w1, note, t, dry)
                              ELSE unpublishNote(w1, note, dry),
                              EntriesOf(w.notes, p, note0.uid),
                              note, hasOld, oldNote, contentHash, t, dry)

\* handleNoteRemoval for the store entry uid it found at notePath: remove the
\* file at the recorded output path, delete the entry
handleNoteRemoval(w, uid) ==
    LET stateNote == w.notes[uid]
        w1 == IF stateNote.pub THEN RemoveHugoFile(w, stateNote.hugo) ELSE w
    IN  [w1 EXCEPT !.notes = Drop(@, uid)]

\* regeneratePublishedContent after os.WriteFile returned for a note
regenerateWritten(w, note) ==
    IF w.err
    THEN [w EXCEPT !.pass.failed = @ \cup
                       {[path |-> note.path, uid |-> note.uid, phase |-> "regenerate",
                         before |-> EntriesOf(w.notes, note.path, note.uid),
                         after |-> EntriesOf(w.notes, note.path, note.uid)]}]
    ELSE [w EXCEPT !.pass.rendered = @ \cup {note.path}]

\* regeneratePublishedContent: render and write every note of the map, by
\* path, up to the first write that fails
RECURSIVE regenerateFrom(_, _, _, _, _)
regenerateFrom(w, publishedNotes, i, t, dry) ==
    IF i > Len(PathOrder) \/ w.err THEN w
    ELSE LET here == { u \in DOMAIN publishedNotes : publishedNotes[u].path = PathOrder[i] }
             note == publishedNotes[CHOOSE u \in here : TRUE]
             hugoContent == GenerateContent(w.slugMap, note, t)
             w1 == IF here = {} \/ dry THEN w
                   ELSE regenerateWritten(WriteHugoFile(w, hugoContent.path, hugoContent.file),
                                          note)
         IN  regenerateFrom(w1, publishedNotes, i + 1, t, dry)

\* the error of the first write that fails is returned (err)
regeneratePublishedContent(w, publishedNotes, t, dry) ==
    regenerateFrom([w EXCEPT !.err = FALSE], publishedNotes, 1, t, dry)

\* the UIDs the store lists for the vault image behind an output image
ReferencingUIDs(im, imagePath) ==
    UNION { Range(im[k]) : k \in { x \in DOMAIN im : calculateHugoImagePath(x) = imagePath } }

\* a CleanupUnusedImages without the grace period
CleanupUnusedImagesNoGrace(w, referencedImages, t, dry) ==
    LET unused == { a \in DOMAIN w.assets : a \notin DOMAIN referencedImages }
    IN  [w EXCEPT
           !.assets = IF dry THEN @ ELSE [a \in DOMAIN @ \ unused |-> @[a]],
           !.pass.sweep = { [path |-> a, age |-> t - w.assets[a],
                             refs |-> ReferencingUIDs(w.images, a)] : a \in DOMAIN w.assets }]

\* CleanupUnusedImages: every image of the content tree without an entry in
\* referencedImages is deleted once older than the grace period
CleanupUnusedImages(w, referencedImages, t, dry) ==
    LET unused == { a \in DOMAIN w.assets :
                      /\ (a \notin DOMAIN referencedImages \/ Len(referencedImages[a]) = 0)
                      /\ t - w.assets[a] > GracePeriod }
    IN  [w EXCEPT
           !.assets = IF dry THEN @ ELSE [a \in DOMAIN @ \ unused |-> @[a]],
           !.pass.sweep = { [path |-> a, age |-> t - w.assets[a],
                             refs |-> ReferencingUIDs(w.images, a)] : a \in DOMAIN w.assets }]

\* Daemon.cleanupImages: the sweep over the store's image references
cleanupImages(w, t, dry) == CleanupUnusedImages(w, w.images, t, dry)

\* repairMissingSectionIndexes: an index for every section that holds a document
RECURSIVE repairIndexesOf(_, _, _, _)
repairIndexesOf(w, dirs, t, dry) ==
    IF dirs = {} THEN w
    ELSE LET d == CHOOSE x \in dirs : TRUE
         IN  repairIndexesOf(ensureAllSectionIndexes(w, d, t, dry), dirs \ {d}, t, dry)

repairMissingSectionIndexes(w, t, dry) ==
    repairIndexesOf(w, { l.dir : l \in { x \in DOMAIN w.out : ~HasSuffix(x.file, IndexName) } },
                    t, dry)

\* the files repairOrphanedHugoFiles looks at: .md files other than _index.md
\* whose front-matter yields a noteUid
RepairCandidates(w) ==
    { l \in DOMAIN w.out :
        /\ ~HasSuffix(l.file, IndexName)
        /\ HasSuffix(l.file, MD)
        /\ extractNoteUidFromHugoFile(w.out[l]) # <<>> }

\* a repairOrphanedHugoFiles that keeps the files of unpublished notes the store knows
repairKeepsUnpublished(w, publishedNotes, dry) ==
    LET currentlyPublished ==
            [u \in DOMAIN publishedNotes |-> calculateHugoPath(publishedNotes[u])]
        orphanedFiles ==
            { l \in RepairCandidates(w) :
                /\ extractNoteUidFromHugoFile(w.out[l]) \notin DOMAIN currentlyPublished
                /\ extractNoteUidUnquoted(w.out[l]) \notin DOMAIN w.notes }
    IN  [w EXCEPT
           !.out = IF dry THEN @ ELSE [l \in DOMAIN @ \ orphanedFiles |-> @[l]],
           !.pass.deleted = IF dry THEN @
                            ELSE @ \cup {[loc |-> l, file |-> w.out[l]] : l \in orphanedFiles},
           !.needsLinkUpdate = @ \/ orphanedFiles # {}]

\* repairOrphanedHugoFiles: delete the files whose noteUid is not of a note
\* published in this pass (orphans) and the files of a published note that
\* are not at calculateHugoPath (duplicates)
repairOrphanedHugoFiles(w, publishedNotes, dry) ==
    LET currentlyPublished ==
            [u \in DOMAIN publishedNotes |-> calculateHugoPath(publishedNotes[u])]
        orphanedFiles ==
            { l \in RepairCandidates(w) :
                extractNoteUidFromHugoFile(w.out[l]) \notin DOMAIN currentlyPublished }
        duplicateFiles ==
            { l \in RepairCandidates(w) :
                /\ extractNoteUidFromHugoFile(w.out[l]) \in DOMAIN currentlyPublished
                /\ currentlyPublished[extractNoteUidFromHugoFile(w.out[l])] # l }
        gone == orphanedFiles \cup duplicateFiles
    IN  [w EXCEPT
           !.out = IF dry THEN @ ELSE [l \in DOMAIN @ \ gone |-> @[l]],
           !.pass.deleted = IF dry THEN @
                            ELSE @ \cup {[loc |-> l, file |-> w.out[l]] : l \in gone},
           !.needsLinkUpdate = @ \/ gone # {}]

\* a Save that goes back to the saved store when it fails
SaveRollsBack(w) ==
    IF w.faults.save
    THEN [w EXCEPT !.pass.saveFailed = TRUE,
                   !.pass.steps = @ \cup {"save"},
                   !.pass.store = [notes |-> w.notes, images |-> w.images],
                   !.notes = w.saved.notes,
                   !.images = w.saved.images]
    ELSE [w EXCEPT !.saved = [notes |-> w.notes, images |-> w.images],
                   !.pass.steps = @ \cup {"save"},
                   !.pass.store = [notes |-> w.notes, images |-> w.images]]

\* Manager.Save as the daemon calls it: the store written to the state file,
\* or an error that the caller logs
Save(w) ==
    IF w.faults.save
    THEN [w EXCEPT !.pass.saveFailed = TRUE,
                   !.pass.steps = @ \cup {"save"},
                   !.pass.store = [notes |-> w.notes, images |-> w.images]]
    ELSE [w EXCEPT !.saved = [notes |-> w.notes, images |-> w.images],
                   !.pass.steps = @ \cup {"save"},
                   !.pass.store = [notes |-> w.notes, images |-> w.images]]

\* a step of performFullSync has run
Ran(w, step) == [w EXCEPT !.pass.steps = @ \cup {step}]

\* the loop of performFullSync over the scanned paths: the world after it and
\* the notes classified published, by UID
RECURSIVE processAll(_, _, _, _, _)
RECURSIVE processAllFrom(_, _, _, _, _)
\* the loop goes on after processNote has returned r for the i-th path
processAllFrom(r, publishedNotes, i, t, dry) ==
    processAll(r.w,
               IF r.ok /\ r.note.pub
               THEN Put(publishedNotes, r.note.uid, r.note)
               ELSE publishedNotes,
               i + 1, t, dry)

processAll(w, publishedNotes, i, t, dry) ==
    IF i > Len(PathOrder) THEN [w |-> w, publishedNotes |-> publishedNotes]
    ELSE IF PathOrder[i] \notin DOMAIN w.vault
         THEN processAll(w, publishedNotes, i + 1, t, dry)
         ELSE processAllFrom(processNote(w, PathOrder[i], t, dry), publishedNotes, i, t, dry)

\* performFullSync after regeneratePublishedContent returned in world w: its
\* error ends the pass; else image sweep, section indexes, repair sweep, save
syncRegenerated(w, publishedNotes, t, dry) ==
    IF w.err THEN [w EXCEPT !.pass.aborted = TRUE]
    ELSE LET w3 == Ran(cleanupImages(w, t, dry), "images")
             w4 == Ran(repairMissingSectionIndexes(w3, t, dry), "indexes")
             w5 == Ran(repairOrphanedHugoFiles(w4, publishedNotes, dry), "repair")
         IN  Save(w5)

\* performFullSync after the loop over the notes: slug map, regeneration,
\* image sweep, section indexes, repair sweep, save
syncPublished(w, publishedNotes, order, t, dry) ==
    syncRegenerated(
        regeneratePublishedContent(
            [w EXCEPT
                !.slugMap = UpdateSlugMap(publishedNotes, order),
                !.pass.published = [u \in DOMAIN publishedNotes |-> publishedNotes[u].path]],
            publishedNotes, t, dry),
        publishedNotes, t, dry)

\* the part of performFullSync that follows the scan
syncScanned(scanned, order, t, dry) ==
    syncPublished(scanned.w, scanned.publishedNotes, order, t, dry)

\* performFullSync, with the slug map built in the given order of the notes
performFullSync(w, order, t, dry) ==
    syncScanned(processAll(w, EmptyMap, 1, t, dry), order, t, dry)

\* the notes performIncrementalSync parses again: the source files of the
\* store's published entries that can still be read
StatePublishedNotes(w) ==
    [u \in { x \in DOMAIN w.notes : w.notes[x].pub /\ w.notes[x].src \in DOMAIN w.vault }
        |-> ParseNote(w.vault, w.notes[u].src)]

\* a performIncrementalSync that regenerates on every tick
performIncrementalSyncAlways(w, order, t, dry) ==
    LET publishedNotes == StatePublishedNotes(w)
        w1 == [w EXCEPT !.slugMap = UpdateSlugMap(publishedNotes, order)]
        w2 == regeneratePublishedContent(w1, publishedNotes, t, dry)
    IN  Save([w2 EXCEPT !.needsLinkUpdate = FALSE, !.err = FALSE])

\* a performIncrementalSync that regenerates but leaves needsLinkUpdate set
performIncrementalSyncKeepsFlag(w, order, t, dry) ==
    IF w.needsLinkUpdate
    THEN LET publishedNotes == StatePublishedNotes(w)
             w1 == [w EXCEPT !.slugMap = UpdateSlugMap(publishedNotes, order)]
             w2 == regeneratePublishedContent(w1, publishedNotes, t, dry)
         IN  Save([w2 EXCEPT !.err = FALSE])
    ELSE Save(w)

\* performIncrementalSync: regenerate everything when a link update is
\* pending, then save
performIncrementalSync(w, order, t, dry) ==
    IF w.needsLinkUpdate
    THEN LET publishedNotes == StatePublishedNotes(w)
             w1 == [w EXCEPT !.slugMap = UpdateSlugMap(publishedNotes, order)]
             w2 == regeneratePublishedContent(w1, publishedNotes, t, dry)
         IN  Save([w2 EXCEPT !.needsLinkUpdate = FALSE, !.err = FALSE])
    ELSE Save(w)

(***************************************************************************)
(* Initial state: the daemon is not running, the content tree and the      *)
(* state file are empty, the vault holds a published note notes/a.md       *)
(* without identity that links to Intro and embeds notes/pic.png, and a    *)
(* note Intro.md that carries an identity and is not published.            *)
(***************************************************************************)
Doc(uid, pub, weight, link, img, mtime) ==
    [uid |-> uid, title |-> NoTitle, pub |-> pub, weight |-> weight,
     link |-> link, img |-> img, mtime |-> mtime]

InitVault ==
    (PIntro :> Doc(KnownUid, FALSE, TRUE, NoLink, FALSE, 0))
        @@ (PA :> Doc(NoUid, TRUE, FALSE, Stem(PIntro), TRUE, 0))

\* no call of createSlug at hand
NoSlugCase == [state |-> "none", filename |-> <<>>, noteUID |-> <<>>, slug |-> <<>>]

\* syncTicker.C is empty
NoTick == [fired |-> FALSE, ahead |-> 0]

\* before the first start of a daemon on a site whose content tree is tree
DaemonInitOn(tree) ==
    /\ vault = InitVault
    /\ out = tree
    /\ assets = EmptyMap
    /\ notes = EmptyMap
    /\ images = EmptyMap
    /\ saved = [notes |-> EmptyMap, images |-> EmptyMap]
    /\ slugMap = EmptyMap
    /\ needsLinkUpdate = FALSE
    /\ queue = <<>>
    /\ now = 0
    /\ running = FALSE
    /\ dryRun = FALSE
    /\ uids = 0
    /\ assigned = [p \in SrcPaths |-> {}]
    /\ srcChanged = FALSE
    /\ edits = 0
    /\ runs = 0
    /\ pass = NewPass("none")
    /\ faults = NoFaults
    /\ cancelled = FALSE
    /\ ticked = NoTick

\* the content tree holds nothing yet
DaemonInit == DaemonInitOn(EmptyMap)

\* no call of convertWikiLink at hand
NoLinkCase == [state |-> "none"]

\* a file that does not exist
NoFile == [kind |-> "absent"]
\* no process holds a Manager
NoManager == [kind |-> "none"]
NoStoreCall == [op |-> "none"]

\* no goroutine, no process, no body and no slug map at hand
NoThreads == [state |-> "none"]
NoLock == [state |-> "none"]
NoBodyCase == [state |-> "none"]
NoMapCase == [state |-> "none"]
NoRefCase == [state |-> "none"]
ProcOff ==
    /\ threads = NoThreads
    /\ lock = NoLock
    /\ bodyCase = NoBodyCase
    /\ mapCase = NoMapCase
    /\ refCase = NoRefCase

\* no Manager at hand
StoreOff ==
    /\ stateFile = NoFile
    /\ tempFile = NoFile
    /\ manager = NoManager
    /\ storeCall = NoStoreCall

Init ==
    /\ DaemonInit
    /\ slugCase = NoSlugCase
    /\ linkCase = NoLinkCase
    /\ StoreOff
    /\ ProcOff

\* the daemon's variables take the values of world w
Commit(w) ==
    /\ w.uids <= UidPool
    /\ vault' = w.vault
    /\ out' = w.out
    /\ assets' = w.assets
    /\ notes' = w.notes
    /\ images' = w.images
    /\ saved' = w.saved
    /\ slugMap' = w.slugMap
    /\ needsLinkUpdate' = w.needsLinkUpdate
    /\ queue' = w.queue
    /\ uids' = w.uids
    /\ assigned' = w.assigned
    /\ pass' = w.pass
    /\ faults' = NoFaults

(***************************************************************************)
(* The daemon.                                                             *)
(***************************************************************************)
\* Daemon.Start after performFullSync returned in world w: the event loop
\* runs, or Start returns the error of the pass and the process ends
Started(w) ==
    /\ Commit(IF w.pass.aborted
              THEN [w EXCEPT !.notes = EmptyMap, !.images = EmptyMap, !.slugMap = EmptyMap,
                             !.needsLinkUpdate = FALSE, !.queue = <<>>]
              ELSE w)
    /\ running' = ~w.pass.aborted

\* main and Daemon.New and Daemon.Start: the configuration is read (with or
\* without --dry-run), the store is loaded from the state file, the watcher
\* is created, the initial full pass runs
Start ==
    /\ UNCHANGED unitVars
    /\ ~running
    /\ runs < MaxRuns
    /\ LET w0 == [World EXCEPT
                    !.notes = saved.notes, !.images = saved.images,
                    !.slugMap = EmptyMap, !.needsLinkUpdate = FALSE, !.queue = <<>>,
                    !.pass = NewPass("full")]
       IN  \E dry \in BOOLEAN :
               LET w1 == [w0 EXCEPT !.pass.srcSame = runs > 0 /\ ~srcChanged /\ dry = dryRun]
               IN  /\ dryRun' = dry
                   /\ \E order \in Orders(DOMAIN processAll(w1, EmptyMap, 1, now, dry).publishedNotes) :
                          Started(performFullSync(w1, order, now, dry))
    /\ runs' = runs + 1
    /\ srcChanged' = FALSE
    /\ UNCHANGED <<now, edits, cancelled, ticked>>

\* eventLoop, case event: handleFileEvent on the oldest queued notification
HandleEvent ==
    /\ UNCHANGED unitVars
    /\ running
    /\ queue # <<>>
    /\ LET event == Head(queue)
           w0 == [World EXCEPT !.queue = Tail(queue), !.pass = NewPass("event")]
           found == { u \in DOMAIN notes : notes[u].src = event.path }
       IN  IF event.op \in {"Create", "Write"}
           THEN Commit(processNote(w0, event.path, now, dryRun).w)
           ELSE IF found = {} THEN Commit(w0)
                ELSE \E uid \in found : Commit(handleNoteRemoval(w0, uid))
    /\ ticked' = [ticked EXCEPT !.ahead = IF @ > 0 THEN @ - 1 ELSE 0]
    /\ UNCHANGED <<now, running, dryRun, srcChanged, edits, runs, cancelled>>

\* the interval has passed: syncTicker puts a tick on its channel, behind the
\* notifications that wait in watcher.events
TickFires ==
    /\ UNCHANGED unitVars
    /\ running
    /\ ~ticked.fired
    /\ ticked' = [fired |-> TRUE, ahead |-> Len(queue)]
    /\ pass' = NewPass("none")
    /\ UNCHANGED <<vault, out, assets, notes, images, saved, slugMap, needsLinkUpdate,
                   queue, now, running, dryRun, uids, assigned, srcChanged, edits, runs,
                   faults, cancelled>>

\* eventLoop, case syncTicker, for the tick that waits or fires now:
\* performIncrementalSync
Tick ==
    /\ UNCHANGED unitVars
    /\ running
    /\ LET w0 == [World EXCEPT !.pass = NewPass("tick")]
           publishedUIDs == IF needsLinkUpdate THEN DOMAIN StatePublishedNotes(w0) ELSE {}
       IN  \E order \in Orders(publishedUIDs) :
               Commit(performIncrementalSync(w0, order, now, dryRun))
    /\ ticked' = NoTick
    /\ UNCHANGED <<now, running, dryRun, srcChanged, edits, runs, cancelled>>

\* main: SIGINT or SIGTERM arrives and the signal goroutine calls cancel()
Cancel ==
    /\ UNCHANGED unitVars
    /\ running
    /\ ~cancelled
    /\ cancelled' = TRUE
    /\ pass' = NewPass("none")
    /\ UNCHANGED <<vault, out, assets, notes, images, saved, slugMap, needsLinkUpdate,
                   queue, now, running, dryRun, uids, assigned, srcChanged, edits, runs,
                   faults, ticked>>

\* eventLoop, case ctx.Done, once cancel() has been called or as it is called:
\* the watcher is stopped and the process ends; what the store held in memory
\* is gone
Stop ==
    /\ UNCHANGED unitVars
    /\ running
    /\ running' = FALSE
    /\ cancelled' = FALSE
    /\ ticked' = NoTick
    /\ queue' = <<>>
    /\ notes' = EmptyMap
    /\ images' = EmptyMap
    /\ slugMap' = EmptyMap
    /\ needsLinkUpdate' = FALSE
    /\ pass' = NewPass("none")
    /\ UNCHANGED <<vault, out, assets, saved, now, dryRun, uids, assigned,
                   srcChanged, edits, runs, faults>>

(***************************************************************************)
(* The user and the clock.                                                 *)
(***************************************************************************)
\* the vault changes while a daemon runs or before one starts
Observed == running \/ runs < MaxRuns

\* what the watcher queues for a change, when a daemon is there to watch
Notify(events) == IF running THEN queue \o events ELSE queue

\* the user sets or removes the publish marker of a note
EditPublish(p) ==
    /\ UNCHANGED unitVars
    /\ edits < MaxEdits
    /\ Observed
    /\ p \in DOMAIN vault
    /\ vault' = [vault EXCEPT ![p].pub = ~@, ![p].mtime = now]
    /\ queue' = Notify(<<Event(p, "Write")>>)
    /\ edits' = edits + 1
    /\ srcChanged' = TRUE
    /\ pass' = NewPass("none")
    /\ UNCHANGED <<out, assets, notes, images, saved, slugMap, needsLinkUpdate,
                   now, running, dryRun, uids, assigned, runs, faults, cancelled, ticked>>

\* the user renames a note within its folder: same content, new path
EditRename(p, q) ==
    /\ UNCHANGED unitVars
    /\ edits < MaxEdits
    /\ Observed
    /\ p \in DOMAIN vault
    /\ q \in SrcPaths \ DOMAIN vault
    /\ q.dir = p.dir
    /\ vault' = Put(Drop(vault, p), q, vault[p])
    /\ assigned' = [assigned EXCEPT ![q] = assigned[p], ![p] = {}]
    /\ queue' = Notify(<<Event(p, "Rename"), Event(q, "Create")>>)
    /\ edits' = edits + 1
    /\ srcChanged' = TRUE
    /\ pass' = NewPass("none")
    /\ UNCHANGED <<out, assets, notes, images, saved, slugMap, needsLinkUpdate,
                   now, running, dryRun, uids, runs, faults, cancelled, ticked>>

\* the user deletes a note
EditRemove(p) ==
    /\ UNCHANGED unitVars
    /\ edits < MaxEdits
    /\ Observed
    /\ p \in DOMAIN vault
    /\ vault' = Drop(vault, p)
    /\ assigned' = [assigned EXCEPT ![p] = {}]
    /\ queue' = Notify(<<Event(p, "Remove")>>)
    /\ edits' = edits + 1
    /\ srcChanged' = TRUE
    /\ pass' = NewPass("none")
    /\ UNCHANGED <<out, assets, notes, images, saved, slugMap, needsLinkUpdate,
                   now, running, dryRun, uids, runs, faults, cancelled, ticked>>

\* more than a grace period passes between two runs of the daemon (the steps
\* of one run fall into one unit of the clock)
AdvanceClock ==
    /\ UNCHANGED unitVars
    /\ ~running
    /\ 0 < runs /\ runs < MaxRuns
    /\ now + GracePeriod + 1 <= MaxTime
    /\ now' = now + GracePeriod + 1
    /\ pass' = NewPass("none")
    /\ UNCHANGED <<vault, out, assets, notes, images, saved, slugMap, needsLinkUpdate,
                   queue, running, dryRun, uids, assigned, srcChanged, edits, runs, faults, cancelled, ticked>>

Next ==
    \/ Start
    \/ HandleEvent
    \/ Tick
    \/ Stop
    \/ \E p \in SrcPaths : EditPublish(p)
    \/ \E p, q \in SrcPaths : EditRename(p, q)
    \/ \E p \in SrcPaths : EditRemove(p)
    \/ AdvanceClock

Spec == Init /\ [][Next]_vars

(***************************************************************************)
(* The daemon on a Hugo site that already has a page of its own at the     *)
(* content root, under the file name of a note of the vault: the place     *)
(* Daemon.calculateHugoPath records in the store for that note.            *)
(***************************************************************************)
\* a page without noteUid in its front-matter, not written by the daemon
OwnPage ==
    [title |-> Quote(<<"a">>), weight |-> 1, noteUid |-> <<>>, lastUpdated |-> 0,
     ref |-> NoRef]

SiteTree == [dir |-> RootDir, file |-> PA.base] :> OwnPage

SiteInit ==
    /\ DaemonInitOn(SiteTree)
    /\ slugCase = NoSlugCase
    /\ linkCase = NoLinkCase
    /\ StoreOff
    /\ ProcOff

SiteSpec == SiteInit /\ [][Next]_vars

(***************************************************************************)
(* The daemon with the cancellation as a step of its own: between cancel() *)
(* and the turn of the loop that takes the ctx.Done case, select chooses   *)
(* among the cases that are ready, so HandleEvent and Tick stay enabled.   *)
(***************************************************************************)
LoopNext ==
    \/ Start
    \/ HandleEvent
    \/ TickFires
    \/ Tick
    \/ Cancel
    \/ Stop
    \/ \E p \in SrcPaths : EditPublish(p)
    \/ \E p, q \in SrcPaths : EditRename(p, q)
    \/ \E p \in SrcPaths : EditRemove(p)
    \/ AdvanceClock

LoopSpec == Init /\ [][LoopNext]_vars

(***************************************************************************)
(* The daemon on a machine where reading a note, writing or removing a     *)
(* file of the content tree, or saving the state may fail.                 *)
(***************************************************************************)
\* the faults of one step of the daemon: a note that cannot be parsed, one
\* operation on the content tree that fails, or a Save that fails
FaultChoices ==
    { [NoFaults EXCEPT !.parse = {p}] : p \in DOMAIN vault }
    \cup { [NoFaults EXCEPT !.ops = {k}] : k \in 1..MaxFaultOp }
    \cup { [NoFaults EXCEPT !.save = TRUE] }

\* the operating system will refuse something in the next step of the daemon
Inject ==
    /\ UNCHANGED unitVars
    /\ Observed
    /\ faults = NoFaults
    /\ faults' \in FaultChoices
    /\ UNCHANGED <<vault, out, assets, notes, images, saved, slugMap, needsLinkUpdate,
                   queue, now, running, dryRun, uids, assigned, srcChanged, edits, runs,
                   pass, cancelled, ticked>>

FaultNext ==
    \/ Inject
    \/ Start
    \/ HandleEvent
    \/ Tick
    \/ EditPublish(PIntro)

FaultSpec == Init /\ [][FaultNext]_vars

(***************************************************************************)
(* Generator.createSlug on its own: file names around the 50-character     *)
(* limit, with and without the .md extension, and the names of             *)
(* TestCreateSlug, each with identities of several lengths.                *)
(***************************************************************************)
C10Title ==
    <<"V", "e", "r", "y", "L", "o", "n", "g", "T", "i", "t", "l", "e",
      "E", "x", "c", "e", "e", "d", "i", "n", "g", "F", "i", "f", "t",
      "y", "C", "h", "a", "r", "a", "c", "t", "e", "r", "s", "I", "n",
      "T", "o", "t", "a", "l", "L", "e", "n", "g", "t", "h">>
LongTitle == C10Title \o <<"A", "n", "d", "S", "o", "m", "e", "M", "o", "r", "e">>
Abcd1234 == <<"a", "b", "c", "d", "1", "2", "3", "4">>

\* the lengths of the names cut from LongTitle
NameLens == (MaxNameLen - 12)..MaxNameLen
TitleOfLen(n) == SubSeq(LongTitle, 1, n)

SlugNames ==
    { TitleOfLen(n) : n \in NameLens }
    \cup { TitleOfLen(n) \o MD : n \in NameLens }
    \cup { <<"S", "i", "m", "p", "l", "e", " ", "F", "i", "l", "e", ".", "m", "d">>,
           <<"F", "i", "l", "e", " ", "w", "i", "t", "h", " ", "S", "p", "a", "c", "e", "s", " ", "&", " ", "S",
             "p", "e", "c", "i", "a", "l", "!", ".", "m", "d">>,
           <<"-", "-", "-">>,
           MD }

SlugUids ==
    { Abcd1234 \o <<"-", "5", "6", "7", "8", "-", "9", "0", "a", "b">>,
      Abcd1234,
      <<"u", "i", "d", "1", "2", "3">>,
      KnownUid }

SlugInput(f, u) == [state |-> "input", filename |-> f, noteUID |-> u, slug |-> <<>>]

SlugInit ==
    /\ DaemonInit
    /\ slugCase \in { SlugInput(f, u) : f \in SlugNames, u \in SlugUids }
    /\ linkCase = NoLinkCase
    /\ StoreOff
    /\ ProcOff

\* generateHugoPath calls createSlug(filename, noteUID); slicing a UID shorter
\* than 8 characters panics
CreateSlug ==
    /\ slugCase.state = "input"
    /\ slugCase' =
          IF createSlugPanics(slugCase.filename, slugCase.noteUID)
          THEN [slugCase EXCEPT !.state = "panic"]
          ELSE [slugCase EXCEPT !.state = "slug",
                                !.slug = createSlug(slugCase.filename, slugCase.noteUID)]
    /\ UNCHANGED <<daemonVars, linkCase, bodyCase, mapCase, refCase, storeVars, procVars>>

\* the next note to be slugged
NextSlugInput ==
    /\ slugCase.state \in {"slug", "panic"}
    /\ \E f \in SlugNames, u \in SlugUids : slugCase' = SlugInput(f, u)
    /\ UNCHANGED <<daemonVars, linkCase, bodyCase, mapCase, refCase, storeVars, procVars>>

SlugNext ==
    \/ CreateSlug
    \/ NextSlugInput

SlugSpec == SlugInit /\ [][SlugNext]_vars

(***************************************************************************)
(* Generator.convertWikiLink on its own: the matches of the wikilink       *)
(* pattern for published and unpublished targets, with and without display *)
(* text and section, under every configuration and snapshot of the slug    *)
(* map.                                                                     *)
(***************************************************************************)
\* strings.TrimSpace, for text whose only white space is the blank
TrimSpace(s) ==
    LET keep == { i \in DOMAIN s : s[i] # " " }
        first == CHOOSE i \in keep : \A j \in keep : i <= j
        last == CHOOSE i \in keep : \A j \in keep : j <= i
    IN  IF keep = {} THEN <<>> ELSE SubSeq(s, first, last)

\* strings.Index for a one-character separator, counted from 1; 0 when absent
Index(s, c) ==
    IF c \in Range(s)
    THEN CHOOSE i \in DOMAIN s : s[i] = c /\ \A j \in 1..(i - 1) : s[j] # c
    ELSE 0

\* strings.ReplaceAll of one character by another
ReplaceAll(s, old, new) == [i \in DOMAIN s |-> IF s[i] = old THEN new ELSE s[i]]

\* Generator.convertToHugoURL on a path: every part but the last in lowercase,
\* spaces and underscores as hyphens
convertToHugoURLPath(path) ==
    LET slashes == { i \in DOMAIN path : path[i] = "/" }
        lastSlash == IF slashes = {} THEN 0
                     ELSE CHOOSE i \in slashes : \A j \in slashes : j <= i
    IN  [i \in DOMAIN path |->
            IF i < lastSlash
            THEN (IF path[i] \in {" ", "_"} THEN "-" ELSE ToLowerChar(path[i]))
            ELSE path[i]]

ContentPrefix == <<"c", "o", "n", "t", "e", "n", "t", "/">>
ContentPrefixWin == <<"c", "o", "n", "t", "e", "n", "t", "\\">>

\* createHugoLink: a static markdown link, or a relref shortcode
createHugoLink(linkFormat, hugoPath, displayText) ==
    IF linkFormat = "md"
    THEN LET url0 == <<"/">> \o ReplaceAll(hugoPath, "\\", "/")
             url == IF HasSuffix(url0, <<"/">>) THEN url0 ELSE url0 \o <<"/">>
         IN  <<"[">> \o displayText \o <<"]", "(">> \o url \o <<")">>
    ELSE LET stripped == IF HasPrefix(hugoPath, ContentPrefix)
                         THEN SubSeq(hugoPath, Len(ContentPrefix) + 1, Len(hugoPath))
                         ELSE IF HasPrefix(hugoPath, ContentPrefixWin)
                              THEN SubSeq(hugoPath, Len(ContentPrefixWin) + 1, Len(hugoPath))
                              ELSE hugoPath
             relrefPath == convertToHugoURLPath(ReplaceAll(stripped, "\\", "/"))
         IN  <<"[">> \o displayText \o <<"]", "(", "{", "{", "<", " ", "r", "e", "l", "r", "e", "f", " ", "\"">>
                 \o relrefPath \o <<"\"", " ", ">", "}", "}", ")">>

\* the key convertWikiLink looks up: the trimmed target up to its section
targetForLookup(m1) ==
    LET target == TrimSpace(m1)
        idx == Index(target, "#")
    IN  IF idx > 0 THEN SubSeq(target, 1, idx - 1) ELSE target

\* the display text of a match: the trimmed second group, else the trimmed target
displayTextOf(m1, m2) == IF m2 # <<>> THEN TrimSpace(m2) ELSE TrimSpace(m1)

\* a convertWikiLink that links a target it does not find to the location its
\* name would get
convertWikiLinkGuess(g, m1, m2) ==
    createHugoLink(g.linkFormat, ToLower(targetForLookup(m1)), displayTextOf(m1, m2))

\* convertWikiLink on the groups m1 (target) and m2 (display text, empty when
\* absent) of a match: the text that replaces the wikilink
convertWikiLinkMatch(g, m1, m2) ==
    IF targetForLookup(m1) \in DOMAIN g.slugMap
    THEN createHugoLink(g.linkFormat, g.slugMap[targetForLookup(m1)], displayTextOf(m1, m2))
    ELSE IF g.unpublishedLink = "hash"
         THEN <<"[">> \o displayTextOf(m1, m2) \o <<"]", "(", "#", ")">>
         ELSE displayTextOf(m1, m2)

PublishedNote == <<"P", "u", "b", "l", "i", "s", "h", "e", "d", " ", "N", "o", "t", "e">>
AnotherNote == <<"A", "n", "o", "t", "h", "e", "r", " ", "N", "o", "t", "e">>
UnpublishedNote == <<"U", "n", "p", "u", "b", "l", "i", "s", "h", "e", "d", " ", "N", "o", "t", "e">>
SectionSuffix == <<"#", "U", "s", "a", "g", "e">>
CustomText == <<"C", "u", "s", "t", "o", "m", " ", "T", "e", "x", "t">>

\* the slug map of TestProcessWikiLinks, with a location below content/
TestSlugMap ==
    (PublishedNote :> <<"g", "u", "i", "d", "e", "s", "/", "p", "u", "b", "l", "i", "s", "h", "e", "d", "-", "n", "o", "t", "e">>) @@ (AnotherNote :> <<"c", "o", "n", "t", "e", "n", "t", "/", "d", "o", "c", "s", "/", "M", "y", " ", "P", "o", "s", "t", "s", "/", "a", "n", "o", "t", "h", "e", "r", "-", "n", "o", "t", "e">>)

\* the snapshots of the publish set: the test's map and its parts
LinkSlugMaps ==
    { [k \in ks |-> TestSlugMap[k]] : ks \in SUBSET DOMAIN TestSlugMap }

\* the generators: every link format and every handling of unpublished targets
LinkGenerators ==
    { [slugMap |-> sm, linkFormat |-> lf, unpublishedLink |-> ul] :
        sm \in LinkSlugMaps, lf \in {"relref", "md"}, ul \in {"text", "hash"} }

\* first groups of a match: plain, padded, with a section, a section alone
LinkTargets ==
    UNION { { n, <<" ">> \o n \o <<" ">>, n \o SectionSuffix } :
              n \in {PublishedNote, AnotherNote, UnpublishedNote} }
    \cup { SectionSuffix }

\* second groups of a match: absent, plain, padded, with brackets that the
\* pattern admits
LinkDisplays ==
    { <<>>, CustomText, <<" ">> \o CustomText, <<"[">> \o CustomText, <<"C", "u", "s", "t", "o", "m", " ", "(", "T", "e", "x", "t", ")">> }

LinkInput(g, m1, m2) == [state |-> "input", g |-> g, m1 |-> m1, m2 |-> m2]

LinkInit ==
    /\ DaemonInit
    /\ slugCase = NoSlugCase
    /\ linkCase \in { LinkInput(g, m1, m2) :
                        g \in LinkGenerators, m1 \in LinkTargets, m2 \in LinkDisplays }
    /\ StoreOff
    /\ ProcOff

\* processWikiLinks replaces a match by convertWikiLink of it
ConvertWikiLink ==
    /\ linkCase.state = "input"
    /\ linkCase' = [state |-> "done", g |-> linkCase.g, m1 |-> linkCase.m1,
                    m2 |-> linkCase.m2,
                    result |-> convertWikiLinkMatch(linkCase.g, linkCase.m1, linkCase.m2)]
    /\ UNCHANGED <<daemonVars, slugCase, bodyCase, mapCase, refCase, storeVars, procVars>>

\* the next match to be converted
NextLinkInput ==
    /\ linkCase.state = "done"
    /\ \E g \in LinkGenerators, m1 \in LinkTargets, m2 \in LinkDisplays :
          linkCase' = LinkInput(g, m1, m2)
    /\ UNCHANGED <<daemonVars, slugCase, bodyCase, mapCase, refCase, storeVars, procVars>>

LinkNext ==
    \/ ConvertWikiLink
    \/ NextLinkInput

LinkSpec == LinkInit /\ [][LinkNext]_vars

(***************************************************************************)
(* state.Manager on its own: a process creates the Manager, which loads    *)
(* state.json, changes and queries the State, and saves it through         *)
(* state.json.tmp; the process may end at any step.                        *)
(***************************************************************************)
stateVersion == "1.0"
\* hashString of the absolute vault path, for this vault and for another one
VaultHash == "vault"
OtherVaultHash == "other-vault"

\* the State a file holds, as json.MarshalIndent writes it
StateFile(version, vaultHash, ns, im) ==
    [kind |-> "state", version |-> version, vaultHash |-> vaultHash,
     notes |-> ns, images |-> im]

\* a load that takes whatever State the file holds
loadUnchecked(m, file) ==
    IF file.kind = "state"
    THEN [m |-> [m EXCEPT !.notes = file.notes, !.images = file.images], err |-> FALSE]
    ELSE [m |-> m, err |-> file.kind # "absent"]

\* Manager.load: the State of the file replaces the Manager's when the file
\* can be read, is JSON, and has this version and this vault's hash
load(m, file) ==
    IF file.kind = "absent" THEN [m |-> m, err |-> FALSE]
    ELSE IF file.kind = "unreadable" THEN [m |-> m, err |-> TRUE]
    ELSE IF file.kind # "state" THEN [m |-> m, err |-> TRUE]
    ELSE IF file.version # stateVersion THEN [m |-> m, err |-> TRUE]
    ELSE IF file.vaultHash # m.vaultHash THEN [m |-> m, err |-> TRUE]
    ELSE [m |-> [m EXCEPT !.notes = file.notes, !.images = file.images], err |-> FALSE]

\* the Manager NewManager builds before it loads
FreshManager ==
    [kind |-> "ready", vaultHash |-> VaultHash, notes |-> EmptyMap, images |-> EmptyMap,
     pc |-> "idle", data |-> NoFile]

\* the UIDs, entries and times the Manager is called with
StoreUids == {KnownUid, FreshUid(0)}
StoreHashes == { CalculateContentHash(<<b>>) : b \in BOOLEAN }
StoreTimes == 0..2
StoreNote(path, t, hash) ==
    [src |-> path, hugo |-> [dir |-> RootDir, file |-> path.base],
     lastMod |-> t, lastSync |-> t, pub |-> TRUE, hash |-> hash]
StoreNotes ==
    { StoreNote(PA, 1, CalculateContentHash(<<TRUE>>)),
      StoreNote(PB, 1, CalculateContentHash(<<FALSE>>)) }

\* a State with one note and one image, as an earlier run left it
OldNotes == (KnownUid :> StoreNote(PA, 1, CalculateContentHash(<<TRUE>>)))
OldImages == (ImageRefPath(NotesDir) :> <<KnownUid>>)

\* what the process may find at the path of state.json: nothing, a file it
\* cannot read, a file that is no JSON, the State of another version, of
\* another vault, of this vault
StartFiles ==
    { NoFile, [kind |-> "unreadable"], [kind |-> "malformed"],
      StateFile("0.9", VaultHash, OldNotes, OldImages),
      StateFile(stateVersion, OtherVaultHash, OldNotes, OldImages),
      StateFile(stateVersion, VaultHash, OldNotes, OldImages),
      StateFile(stateVersion, VaultHash, EmptyMap, EmptyMap) }

StoreInit ==
    /\ DaemonInit
    /\ slugCase = NoSlugCase
    /\ linkCase = NoLinkCase
    /\ stateFile \in StartFiles
    /\ tempFile = NoFile
    /\ manager = NoManager
    /\ storeCall = NoStoreCall
    /\ ProcOff

\* the variables no call of the Manager touches
otherThanStore == <<daemonVars, slugCase, linkCase, bodyCase, mapCase, refCase, procVars>>

Idle == manager.kind = "ready" /\ manager.pc = "idle"

\* NewManager: the Manager is returned whether or not load succeeded
NewManager ==
    /\ UNCHANGED otherThanStore
    /\ manager.kind = "none"
    /\ manager' = load(FreshManager, stateFile).m
    /\ storeCall' = [op |-> "NewManager", err |-> load(FreshManager, stateFile).err]
    /\ UNCHANGED <<stateFile, tempFile>>

\* Manager.SetNote
SetNote(uid, note) ==
    /\ UNCHANGED otherThanStore
    /\ Idle
    /\ manager' = [manager EXCEPT !.notes = Put(@, uid, note)]
    /\ storeCall' = [op |-> "SetNote"]
    /\ UNCHANGED <<stateFile, tempFile>>

\* Manager.DeleteNote
DeleteNote(uid) ==
    /\ UNCHANGED otherThanStore
    /\ Idle
    /\ uid \in DOMAIN manager.notes
    /\ manager' = [manager EXCEPT !.notes = Drop(@, uid)]
    /\ storeCall' = [op |-> "DeleteNote"]
    /\ UNCHANGED <<stateFile, tempFile>>

\* Manager.AddImageReference and Manager.RemoveImageReference, for the image of
\* the note uid
SetImageReference(uid) ==
    /\ UNCHANGED otherThanStore
    /\ Idle
    /\ \/ manager' = [manager EXCEPT
                         !.images = AddImageReference(@, ImageRefPath(NotesDir), uid)]
       \/ manager' = [manager EXCEPT
                         !.images = RemoveImageReference(@, ImageRefPath(NotesDir), uid)]
    /\ manager' # manager
    /\ storeCall' = [op |-> "SetImageReference"]
    /\ UNCHANGED <<stateFile, tempFile>>

\* Manager.NeedsSync: reads the State
CallNeedsSync(uid, filePath, modTime, contentHash) ==
    /\ UNCHANGED otherThanStore
    /\ Idle
    /\ storeCall' = [op |-> "NeedsSync", uid |-> uid, filePath |-> filePath,
                     modTime |-> modTime, contentHash |-> contentHash,
                     result |-> NeedsSync(manager.notes, uid, filePath, modTime, contentHash)]
    /\ UNCHANGED <<stateFile, tempFile, manager>>

\* a Save that writes the State straight into state.json
SaveInPlace ==
    /\ UNCHANGED otherThanStore
    /\ manager.kind = "ready"
    /\ manager.pc = "write"
    /\ \/ /\ stateFile' = [kind |-> "partial"]
          /\ manager' = [manager EXCEPT !.pc = "writing"]
          /\ UNCHANGED storeCall
       \/ /\ manager' = [manager EXCEPT !.pc = "idle", !.data = NoFile]
          /\ storeCall' = [op |-> "Save", err |-> TRUE, step |-> "write"]
          /\ UNCHANGED stateFile
    /\ UNCHANGED tempFile

\* Manager.Save, os.MkdirAll and json.MarshalIndent: the directory is there
\* and the State is marshaled, or Save returns the error
SaveMarshal ==
    /\ UNCHANGED otherThanStore
    /\ Idle
    /\ \/ /\ manager' = [manager EXCEPT
                            !.pc = "write",
                            !.data = StateFile(stateVersion, manager.vaultHash,
                                               manager.notes, manager.images)]
          /\ UNCHANGED storeCall
       \/ /\ storeCall' = [op |-> "Save", err |-> TRUE, step |-> "mkdir"]
          /\ UNCHANGED manager
    /\ UNCHANGED <<stateFile, tempFile>>

\* Manager.Save, os.WriteFile(tempPath): the file is created or truncated, or
\* Save returns the error
SaveOpenTemp ==
    /\ UNCHANGED otherThanStore
    /\ manager.kind = "ready"
    /\ manager.pc = "write"
    /\ \/ /\ tempFile' = [kind |-> "partial"]
          /\ manager' = [manager EXCEPT !.pc = "writing"]
          /\ UNCHANGED storeCall
       \/ /\ manager' = [manager EXCEPT !.pc = "idle", !.data = NoFile]
          /\ storeCall' = [op |-> "Save", err |-> TRUE, step |-> "write"]
          /\ UNCHANGED tempFile
    /\ UNCHANGED stateFile

\* Manager.Save, os.WriteFile(tempPath): the data is written, or the write
\* stops short and Save returns the error
SaveWriteTemp ==
    /\ UNCHANGED otherThanStore
    /\ manager.kind = "ready"
    /\ manager.pc = "writing"
    /\ \/ /\ tempFile' = manager.data
          /\ manager' = [manager EXCEPT !.pc = "rename"]
          /\ UNCHANGED storeCall
       \/ /\ manager' = [manager EXCEPT !.pc = "idle", !.data = NoFile]
          /\ storeCall' = [op |-> "Save", err |-> TRUE, step |-> "write"]
          /\ UNCHANGED tempFile
    /\ UNCHANGED stateFile

\* Manager.Save, os.Rename(tempPath, statePath): state.json.tmp becomes
\* state.json, or it is removed and Save returns the error
SaveRename ==
    /\ UNCHANGED otherThanStore
    /\ manager.kind = "ready"
    /\ manager.pc = "rename"
    /\ \/ /\ stateFile' = tempFile
          /\ storeCall' = [op |-> "Save", err |-> FALSE, step |-> "rename"]
       \/ /\ storeCall' = [op |-> "Save", err |-> TRUE, step |-> "rename"]
          /\ UNCHANGED stateFile
    /\ tempFile' = NoFile
    /\ manager' = [manager EXCEPT !.pc = "idle", !.data = NoFile]

\* the process stops, at any step of Save or between calls
Crash ==
    /\ UNCHANGED otherThanStore
    /\ manager.kind = "ready"
    /\ manager' = NoManager
    /\ storeCall' = [op |-> "Crash", pc |-> manager.pc, data |-> manager.data]
    /\ UNCHANGED <<stateFile, tempFile>>

StoreNext ==
    \/ NewManager
    \/ \E note \in StoreNotes : SetNote(FreshUid(0), note)
    \/ \E uid \in StoreUids : DeleteNote(uid)
    \/ SetImageReference(KnownUid)
    \/ \E uid \in StoreUids, filePath \in {PA, PB}, modTime \in StoreTimes,
             contentHash \in StoreHashes :
          CallNeedsSync(uid, filePath, modTime, contentHash)
    \/ SaveMarshal
    \/ SaveOpenTemp
    \/ SaveWriteTemp
    \/ SaveRename
    \/ Crash

StoreSpec == StoreInit /\ [][StoreNext]_vars

(***************************************************************************)
(* The goroutines of one process: the goroutine that runs Daemon.Start and *)
(* eventLoop, the goroutine of Watcher.startFsnotify, the ticker and the   *)
(* signal goroutine of main. A goroutine is in threads.busy while it runs  *)
(* performFullSync, handleFileEvent or performIncrementalSync, the only    *)
(* callers of processNote, of the state Manager, of the image references   *)
(* and of the slug map.                                                    *)
(***************************************************************************)
ThreadStart ==
    [state |-> "run",
     loop |-> "start",      \* Daemon.Start: start, fullsync, select, event, tick, exited
     watcher |-> "off",     \* startFsnotify: off, select, send, exited
     signal |-> "wait",     \* main: the goroutine at <-sigChan
     fs |-> 0,              \* events waiting in fsWatcher.Events
     emitted |-> 0,         \* events fsnotify has reported
     events |-> 0,          \* notifications in watcher.events
     tick |-> FALSE,        \* a tick waits in syncTicker.C
     ctxDone |-> FALSE,     \* cancel() was called
     wDone |-> FALSE,       \* Watcher.Stop closed w.done
     busy |-> {}]           \* the goroutines inside a processing step

ThreadInit ==
    /\ DaemonInit
    /\ slugCase = NoSlugCase
    /\ linkCase = NoLinkCase
    /\ StoreOff
    /\ threads = ThreadStart
    /\ lock = NoLock
    /\ bodyCase = NoBodyCase
    /\ mapCase = NoMapCase
    /\ refCase = NoRefCase

otherThanThreads == <<daemonVars, slugCase, linkCase, bodyCase, mapCase, refCase, storeVars, lock>>

\* Daemon.Start: performFullSync begins in the calling goroutine
BeginFullSync ==
    /\ UNCHANGED otherThanThreads
    /\ threads.state = "run"
    /\ threads.loop = "start"
    /\ threads' = [threads EXCEPT !.loop = "fullsync", !.busy = @ \cup {"loop"}]

\* Daemon.Start: performFullSync returned, watcher.Start launches the watcher
\* goroutine, eventLoop creates the ticker and waits in select
EndFullSync ==
    /\ UNCHANGED otherThanThreads
    /\ threads.state = "run"
    /\ threads.loop = "fullsync"
    /\ threads' = [threads EXCEPT !.loop = "select", !.watcher = "select",
                                  !.busy = @ \ {"loop"}]

\* fsnotify reports a change of the vault
FsNotify ==
    /\ UNCHANGED otherThanThreads
    /\ threads.state = "run"
    /\ threads.emitted < MaxFsEvents
    /\ threads' = [threads EXCEPT !.fs = @ + 1, !.emitted = @ + 1]

\* a watcher goroutine that handles the event itself instead of queueing it
WatcherHandles ==
    /\ UNCHANGED otherThanThreads
    /\ threads.state = "run"
    /\ threads.watcher = "select"
    /\ threads.fs > 0
    /\ threads' = [threads EXCEPT !.fs = @ - 1, !.watcher = "send",
                                  !.busy = @ \cup {"watcher"}]

\* startFsnotify, case fsWatcher.Events: handleFsnotifyEvent converts the
\* event and comes to its select on w.events
WatcherReceives ==
    /\ UNCHANGED otherThanThreads
    /\ threads.state = "run"
    /\ threads.watcher = "select"
    /\ threads.fs > 0
    /\ threads' = [threads EXCEPT !.fs = @ - 1, !.watcher = "send"]

\* handleFsnotifyEvent: the notification goes into watcher.events when there is
\* room, or is given up when w.done is closed
WatcherSends ==
    /\ UNCHANGED otherThanThreads
    /\ threads.state = "run"
    /\ threads.watcher = "send"
    /\ \/ /\ threads.events < MaxQueued
          /\ threads' = [threads EXCEPT !.events = @ + 1, !.watcher = "select",
                                        !.busy = @ \ {"watcher"}]
       \/ /\ threads.wDone
          /\ threads' = [threads EXCEPT !.watcher = "select", !.busy = @ \ {"watcher"}]

\* startFsnotify, cases ctx.Done and w.done: the goroutine returns
WatcherExits ==
    /\ UNCHANGED otherThanThreads
    /\ threads.state = "run"
    /\ threads.watcher = "select"
    /\ threads.ctxDone \/ threads.wDone
    /\ threads' = [threads EXCEPT !.watcher = "exited"]

\* the interval has passed: the ticker goroutine of the runtime puts a tick
\* on syncTicker.C
TickerFires ==
    /\ UNCHANGED otherThanThreads
    /\ threads.state = "run"
    /\ threads.loop \in {"select", "event", "tick"}
    /\ ~threads.tick
    /\ threads' = [threads EXCEPT !.tick = TRUE]

\* main: the signal goroutine receives SIGINT or SIGTERM and calls cancel()
SignalCancels ==
    /\ UNCHANGED otherThanThreads
    /\ threads.state = "run"
    /\ threads.signal = "wait"
    /\ threads' = [threads EXCEPT !.signal = "done", !.ctxDone = TRUE]

\* eventLoop, case watcher.Events: handleFileEvent begins
LoopTakesEvent ==
    /\ UNCHANGED otherThanThreads
    /\ threads.state = "run"
    /\ threads.loop = "select"
    /\ threads.events > 0
    /\ threads' = [threads EXCEPT !.events = @ - 1, !.loop = "event",
                                  !.busy = @ \cup {"loop"}]

\* eventLoop, case syncTicker.C: performIncrementalSync begins
LoopTakesTick ==
    /\ UNCHANGED otherThanThreads
    /\ threads.state = "run"
    /\ threads.loop = "select"
    /\ threads.tick
    /\ threads' = [threads EXCEPT !.tick = FALSE, !.loop = "tick",
                                  !.busy = @ \cup {"loop"}]

\* handleFileEvent or performIncrementalSync returned: back to select
LoopStepEnds ==
    /\ UNCHANGED otherThanThreads
    /\ threads.state = "run"
    /\ threads.loop \in {"event", "tick"}
    /\ threads' = [threads EXCEPT !.loop = "select", !.busy = @ \ {"loop"}]

\* eventLoop, case ctx.Done: watcher.Stop and return
LoopExits ==
    /\ UNCHANGED otherThanThreads
    /\ threads.state = "run"
    /\ threads.loop = "select"
    /\ threads.ctxDone
    /\ threads' = [threads EXCEPT !.loop = "exited", !.wDone = TRUE]

ThreadNext ==
    \/ BeginFullSync
    \/ EndFullSync
    \/ FsNotify
    \/ WatcherReceives
    \/ WatcherSends
    \/ WatcherExits
    \/ TickerFires
    \/ SignalCancels
    \/ LoopTakesEvent
    \/ LoopTakesTick
    \/ LoopStepEnds
    \/ LoopExits

ThreadSpec == ThreadInit /\ [][ThreadNext]_vars

(***************************************************************************)
(* process.AcquireLock and ReleaseLock, run by several processes on one    *)
(* vault, one system call at a time. A lock file is its inode (the process *)
(* that created it) and the PID written into it; PID 0 is that of a        *)
(* process that died before.                                               *)
(***************************************************************************)
Procs == 1..MaxProcs

\* no file at lockPath
NoLockFile == [there |-> FALSE, inode |-> 0, pid |-> 0, written |-> FALSE]

\* the lock file a killed daemon left behind
StaleLockFile == [there |-> TRUE, inode |-> 0, pid |-> 0, written |-> TRUE]

LockStart(file) ==
    [state |-> "run",
     file |-> file,
     \* where each process is: idle (not started), check, remove, create, write
     \* within AcquireLock, holding, failed (AcquireLock returned an error),
     \* dead (killed while holding)
     proc |-> [p \in Procs |-> "idle"]]

LockInit ==
    /\ DaemonInit
    /\ slugCase = NoSlugCase
    /\ linkCase = NoLinkCase
    /\ StoreOff
    /\ threads = NoThreads
    /\ lock \in {LockStart(NoLockFile), LockStart(StaleLockFile)}
    /\ bodyCase = NoBodyCase
    /\ mapCase = NoMapCase
    /\ refCase = NoRefCase

otherThanLock == <<daemonVars, slugCase, linkCase, bodyCase, mapCase, refCase, storeVars, threads>>

\* os.FindProcess(pid) and Signal(0): the process with that PID exists
ProcessExists(pid) == pid \in Procs /\ lock.proc[pid] \notin {"idle", "failed", "dead"}

\* isProcessRunning: the file is read, its content parsed as a PID, the process
\* signalled; an unreadable or empty file counts as no process
isProcessRunning(file) == file.there /\ file.written /\ ProcessExists(file.pid)

\* AcquireLock: os.Stat(lockPath)
LockStat(p) ==
    /\ UNCHANGED otherThanLock
    /\ lock.state = "run"
    /\ lock.proc[p] \in {"idle", "failed"}
    /\ lock' = [lock EXCEPT !.proc[p] = IF lock.file.there THEN "check" ELSE "create"]

\* AcquireLock: isProcessRunning(lockPath); the error when it is, else on to
\* the removal of the stale file
LockCheck(p) ==
    /\ UNCHANGED otherThanLock
    /\ lock.state = "run"
    /\ lock.proc[p] = "check"
    /\ lock' = [lock EXCEPT !.proc[p] = IF isProcessRunning(lock.file) THEN "failed"
                                         ELSE "remove"]

\* AcquireLock: os.Remove(lockPath) of the file taken for stale; its error is
\* returned
LockRemoveStale(p) ==
    /\ UNCHANGED otherThanLock
    /\ lock.state = "run"
    /\ lock.proc[p] = "remove"
    /\ lock' = IF lock.file.there
               THEN [lock EXCEPT !.file = NoLockFile, !.proc[p] = "create"]
               ELSE [lock EXCEPT !.proc[p] = "failed"]

\* AcquireLock: os.OpenFile with O_CREATE|O_EXCL; its error is returned
LockCreate(p) ==
    /\ UNCHANGED otherThanLock
    /\ lock.state = "run"
    /\ lock.proc[p] = "create"
    /\ lock' = IF lock.file.there
               THEN [lock EXCEPT !.proc[p] = "failed"]
               ELSE [lock EXCEPT !.file = [there |-> TRUE, inode |-> p, pid |-> 0,
                                           written |-> FALSE],
                                 !.proc[p] = "write"]

\* AcquireLock: WriteString of the PID and Sync on the open file, which may no
\* longer be the file at lockPath; the lock is returned
LockWrite(p) ==
    /\ UNCHANGED otherThanLock
    /\ lock.state = "run"
    /\ lock.proc[p] = "write"
    /\ lock' = IF lock.file.there /\ lock.file.inode = p
               THEN [lock EXCEPT !.file.pid = p, !.file.written = TRUE,
                                 !.proc[p] = "holding"]
               ELSE [lock EXCEPT !.proc[p] = "holding"]

\* ReleaseLock: the file is closed and the file at lock.path removed
ReleaseLock(p) ==
    /\ UNCHANGED otherThanLock
    /\ lock.state = "run"
    /\ lock.proc[p] = "holding"
    /\ lock' = [lock EXCEPT !.file = NoLockFile, !.proc[p] = "idle"]

\* the process is killed, or leaves by os.Exit, without ReleaseLock
LockHolderDies(p) ==
    /\ UNCHANGED otherThanLock
    /\ lock.state = "run"
    /\ lock.proc[p] = "holding"
    /\ lock' = [lock EXCEPT !.proc[p] = "dead"]

LockNext ==
    \/ \E p \in Procs : LockStat(p)
    \/ \E p \in Procs : LockCheck(p)
    \/ \E p \in Procs : LockRemoveStale(p)
    \/ \E p \in Procs : LockCreate(p)
    \/ \E p \in Procs : LockWrite(p)
    \/ \E p \in Procs : ReleaseLock(p)
    \/ \E p \in Procs : LockHolderDies(p)

LockSpec == LockInit /\ [][LockNext]_vars

(***************************************************************************)
(* hugo.Generator.processWikiLinks and escapeExampleShortcodes on their    *)
(* own.  A body is a sequence of tokens, each a piece of text the regular  *)
(* expressions of the generator take or leave as a whole: plain text, a    *)
(* wikilink, an explicit markdown link, an example shortcode, the fence of *)
(* three backticks and the backtick.  A placeholder is the token of its    *)
(* name and number.  The bodies are well formed: every fence and every     *)
(* backtick is closed, and code holds no backtick.                         *)
(***************************************************************************)
MaxSegments == 2
MaxInner == 1

Tok(k, i) == [k |-> k, i |-> i]
Plain == Tok("text", 0)
WikiLink == Tok("[[Note]]", 0)
MarkdownLink == Tok("[text](url)", 0)
Shortcode == Tok("{{< relref \"path\" >}}", 0)
Fence == Tok("fence", 0)
Backtick == Tok("backtick", 0)
\* what convertWikiLink returns for [[Note]], and escapeExampleShortcodes for
\* the example shortcode
Converted == Tok("[Note]({{< relref \"note\" >}})", 0)
Escaped == Tok("{{</* relref \"path\" */>}}", 0)

\* the text a code block or a code span may hold
InnerTexts ==
    UNION { [1..n -> {Plain, WikiLink, MarkdownLink, Shortcode}] : n \in 0..MaxInner }
\* the pieces of a body: text, a wikilink, an explicit link, an example
\* shortcode, a fenced code block, an inline code span
Segments ==
    { <<t>> : t \in {Plain, WikiLink, MarkdownLink, Shortcode} }
    \cup { <<Fence>> \o x \o <<Fence>> : x \in InnerTexts }
    \cup { <<Backtick>> \o x \o <<Backtick>> : x \in InnerTexts \ {<<>>} }
Bodies == UNION { [1..n -> Segments] : n \in 1..MaxSegments }

RECURSIVE Flatten(_)
Flatten(segs) == IF segs = <<>> THEN <<>> ELSE Head(segs) \o Flatten(Tail(segs))

\* strings.Index: where old first occurs in s, counted from 1; 0 when absent
IndexOf(s, old) ==
    LET at == { i \in 1..(Len(s) - Len(old) + 1) : SubSeq(s, i, i + Len(old) - 1) = old }
    IN  IF at = {} THEN 0 ELSE CHOOSE i \in at : \A j \in at : i <= j

\* strings.Replace(s, old, new, 1)
ReplaceFirst(s, old, new) ==
    LET i == IndexOf(s, old)
    IN  IF i = 0 THEN s
        ELSE SubSeq(s, 1, i - 1) \o new \o SubSeq(s, i + Len(old), Len(s))

\* strings.Replace(s, old, new, -1)
RECURSIVE ReplaceEach(_, _, _)
ReplaceEach(s, old, new) ==
    LET i == IndexOf(s, old)
    IN  IF i = 0 THEN s
        ELSE SubSeq(s, 1, i - 1) \o new
             \o ReplaceEach(SubSeq(s, i + Len(old), Len(s)), old, new)

\* markdownLinkRegex.FindAllString: the explicit links, from left to right
FindMarkdownLinks(s) ==
    LET links == SelectSeq(s, LAMBDA t : t = MarkdownLink)
    IN  [i \in DOMAIN links |-> <<links[i]>>]

\* codeBlockRegex.FindAllString with d the fence, inlineCodeRegex.FindAllString
\* with d the backtick: from d to the next d with no backtick between them,
\* from left to right and without overlap
RECURSIVE FindDelimited(_, _)
FindDelimited(s, d) ==
    IF s = <<>> THEN <<>>
    ELSE LET rest == Tail(s)
             ticks == { j \in DOMAIN rest : rest[j] \in {Fence, Backtick} }
             j == CHOOSE x \in ticks : \A y \in ticks : x <= y
         IN  IF Head(s) = d /\ ticks # {} /\ rest[j] = d
             THEN <<SubSeq(s, 1, j + 1)>> \o FindDelimited(SubSeq(rest, j + 1, Len(rest)), d)
             ELSE FindDelimited(rest, d)

\* protectCodeSections, one of its three loops: the i-th match is kept under
\* the placeholder of its number and its first occurrence replaced by it
RECURSIVE protectEach(_, _, _, _)
protectEach(g, matches, name, i) ==
    IF i > Len(matches) THEN g
    ELSE protectEach(
             [protected |-> ReplaceFirst(g.protected, matches[i], <<Tok(name, i - 1)>>),
              protectedContent |-> Put(g.protectedContent, Tok(name, i - 1), matches[i])],
             matches, name, i + 1)

\* protectCodeSections: explicit links first, then code blocks, then inline code
protectCodeSections(content) ==
    LET g0 == [protected |-> content, protectedContent |-> EmptyMap]
        g1 == protectEach(g0, FindMarkdownLinks(g0.protected), "__MARKDOWN_LINK_%d__", 1)
        g2 == protectEach(g1, FindDelimited(g1.protected, Fence), "__CODE_BLOCK_%d__", 1)
    IN  protectEach(g2, FindDelimited(g2.protected, Backtick), "__INLINE_CODE_%d__", 1)

\* wikiLinkRegex.ReplaceAllStringFunc(protectedContent, convertWikiLink)
convertWikiLinks(s) == [i \in DOMAIN s |-> IF s[i] = WikiLink THEN Converted ELSE s[i]]

\* restoreCodeSections: every placeholder of the map replaced by its original,
\* in the order the range over the map yields them
RECURSIVE restoreCodeSections(_, _, _)
restoreCodeSections(restored, protectedContent, order) ==
    IF order = <<>> THEN restored
    ELSE restoreCodeSections(
             ReplaceEach(restored, <<Head(order)>>, protectedContent[Head(order)]),
             protectedContent, Tail(order))

\* processWikiLinks, with the order of the range over protectedContent
processWikiLinks(content, order) ==
    LET g == protectCodeSections(content)
    IN  restoreCodeSections(convertWikiLinks(g.protected), g.protectedContent, order)

\* escapeExampleShortcodes: a shortcode with an example path is escaped
escapeExampleShortcodes(s) == [i \in DOMAIN s |-> IF s[i] = Shortcode THEN Escaped ELSE s[i]]

BodyInput(segs) ==
    [state |-> "input", segments |-> segs, content |-> Flatten(segs),
     order |-> <<>>, rendered |-> <<>>]

otherThanBody == <<daemonVars, slugCase, linkCase, mapCase, refCase, storeVars, threads, lock>>

BodyInit ==
    /\ DaemonInit
    /\ slugCase = NoSlugCase
    /\ linkCase = NoLinkCase
    /\ StoreOff
    /\ threads = NoThreads
    /\ lock = NoLock
    /\ mapCase = NoMapCase
    /\ refCase = NoRefCase
    /\ bodyCase \in { BodyInput(segs) : segs \in Bodies }

\* GenerateContent, the body: processWikiLinks, then escapeExampleShortcodes.
\* Go leaves the order of a range over a map open: any order may come.
ProcessBody ==
    /\ bodyCase.state = "input"
    /\ \E order \in Orders(DOMAIN protectCodeSections(bodyCase.content).protectedContent) :
          bodyCase' = [bodyCase EXCEPT
                          !.state = "rendered",
                          !.order = order,
                          !.rendered = escapeExampleShortcodes(
                                           processWikiLinks(bodyCase.content, order))]
    /\ UNCHANGED otherThanBody

\* the next note to be rendered
NextBody ==
    /\ bodyCase.state = "rendered"
    /\ \E segs \in Bodies : bodyCase' = BodyInput(segs)
    /\ UNCHANGED otherThanBody

BodyNext ==
    \/ ProcessBody
    \/ NextBody

BodySpec == BodyInit /\ [][BodyNext]_vars

(***************************************************************************)
(* hugo.Generator.UpdateSlugMap and generateHugoPath on their own: two     *)
(* notes of a vault, the slug map built from them, and the lookup of one   *)
(* wikilink target in it.                                                  *)
(***************************************************************************)
\* file names of notes; "a b.md" and "a-b.md" have the slug a-b
MapBases ==
    { <<"a">> \o MD, <<"a", " ", "b">> \o MD, <<"a", "-", "b">> \o MD, <<"b">> \o MD }
MapDirs == {RootDir, NotesDir, PostsDir}
MapPaths == { [dir |-> d, base |-> b] : d \in MapDirs, b \in MapBases }
\* the titles a front-matter may give
MapTitles == { <<"a">>, <<"b">> }
\* the target of the wikilink [[a]]
MapTarget == <<"a">>
MapUidX == <<"k", "1">>
MapUidY == <<"k", "2">>

\* vault.ParseNote, the fields UpdateSlugMap reads: without a title in the
\* front-matter the title is the file name without its extension
MapNote(p, u, title, pub) ==
    [path |-> p, uid |-> u, title |-> IF title = NoTitle THEN Stem(p) ELSE title, pub |-> pub]

MapInput(x, y, target) ==
    [state |-> "input", publishedNotes |-> (x.uid :> x) @@ (y.uid :> y), target |-> target,
     order |-> <<>>, slugMap |-> EmptyMap, ref |-> NoRef]

MapInputs ==
    { MapInput(MapNote(px, MapUidX, NoTitle, TRUE), MapNote(py, MapUidY, ty, pub), MapTarget) :
        px \in MapPaths, py \in MapPaths, ty \in MapTitles \cup {NoTitle}, pub \in BOOLEAN }

otherThanMap == <<daemonVars, slugCase, linkCase, bodyCase, refCase, storeVars, threads, lock>>

MapInit ==
    /\ DaemonInit
    /\ slugCase = NoSlugCase
    /\ linkCase = NoLinkCase
    /\ StoreOff
    /\ threads = NoThreads
    /\ lock = NoLock
    /\ bodyCase = NoBodyCase
    /\ refCase = NoRefCase
    /\ mapCase \in { c \in MapInputs :
                        c.publishedNotes[MapUidX].path # c.publishedNotes[MapUidY].path }

\* UpdateSlugMap(publishedNotes), then convertWikiLink of [[target]].  Go
\* leaves the order of the range over publishedNotes open.
BuildSlugMap ==
    /\ mapCase.state = "input"
    /\ \E order \in Orders(DOMAIN mapCase.publishedNotes) :
          LET sm == UpdateSlugMap(mapCase.publishedNotes, order)
          IN  mapCase' = [mapCase EXCEPT !.state = "built", !.order = order, !.slugMap = sm,
                                         !.ref = convertWikiLink(sm, mapCase.target)]
    /\ UNCHANGED otherThanMap

\* the vault changes: other notes
NextMapInput ==
    /\ mapCase.state = "built"
    /\ \E c \in MapInputs :
          /\ c.publishedNotes[MapUidX].path # c.publishedNotes[MapUidY].path
          /\ mapCase' = c
    /\ UNCHANGED otherThanMap

MapNext ==
    \/ BuildSlugMap
    \/ NextMapInput

MapSpec == MapInit /\ [][MapNext]_vars

(***************************************************************************)
(* state.Manager on its own, the image references: a Manager that starts   *)
(* with no reference, and calls of AddImageReference and                   *)
(* RemoveImageReference in any order.                                      *)
(***************************************************************************)
MaxRefUids == 3
RefUids == { FreshUid(n) : n \in 0..(MaxRefUids - 1) }
RefPaths == { ImageRefPath(NotesDir), ImageRefPath(RootDir) }

NoRefCall == [op |-> "none", imagePath |-> ImageRefPath(RootDir), noteUID |-> NoUid,
              before |-> EmptyMap]

\* NewManager without a state file: State.Images is an empty map.  live is
\* history: the pairs added and not removed since.
RefStart == [state |-> "open", images |-> EmptyMap, live |-> {}, call |-> NoRefCall]

otherThanRef == <<daemonVars, slugCase, linkCase, bodyCase, mapCase, storeVars, threads, lock>>

RefInit ==
    /\ DaemonInit
    /\ slugCase = NoSlugCase
    /\ linkCase = NoLinkCase
    /\ StoreOff
    /\ threads = NoThreads
    /\ lock = NoLock
    /\ bodyCase = NoBodyCase
    /\ mapCase = NoMapCase
    /\ refCase = RefStart

\* Manager.AddImageReference(imagePath, noteUID)
CallAddImageReference(imagePath, noteUID) ==
    /\ refCase.state = "open"
    /\ refCase' = [refCase EXCEPT
                      !.images = AddImageReference(@, imagePath, noteUID),
                      !.live = @ \cup {<<imagePath, noteUID>>},
                      !.call = [op |-> "add", imagePath |-> imagePath, noteUID |-> noteUID,
                                before |-> refCase.images]]
    /\ UNCHANGED otherThanRef

\* Manager.RemoveImageReference(imagePath, noteUID)
CallRemoveImageReference(imagePath, noteUID) ==
    /\ refCase.state = "open"
    /\ refCase' = [refCase EXCEPT
                      !.images = RemoveImageReference(@, imagePath, noteUID),
                      !.live = @ \ {<<imagePath, noteUID>>},
                      !.call = [op |-> "remove", imagePath |-> imagePath, noteUID |-> noteUID,
                                before |-> refCase.images]]
    /\ UNCHANGED otherThanRef

RefNext ==
    \/ \E imagePath \in RefPaths, noteUID \in RefUids : CallAddImageReference(imagePath, noteUID)
    \/ \E imagePath \in RefPaths, noteUID \in RefUids : CallRemoveImageReference(imagePath, noteUID)

RefSpec == RefInit /\ [][RefNext]_vars

(***************************************************************************)
(* The properties of the specification, checked against the model.         *)
(***************************************************************************)

\* C1: after a full pass outside dry-run, every note classified published in
\* that pass still has the output document the renderer wrote for it: the
\* file at the generator's location for the note, carrying the note's
\* identity, is in the content tree.
C1_PublishedOutputKept ==
    (pass.kind = "full" /\ ~dryRun) =>
        \A u \in DOMAIN pass.published :
            LET loc == generateHugoPath(pass.published[u], u)
            IN  loc \in DOMAIN out /\ out[loc].noteUid = Quote(u)

\* C2: after a full pass outside dry-run, every output document that carries
\* an identity carries the identity of a note classified published in that
\* pass: none belongs to an unknown or an unpublished note.
C2_NoOrphanAfterFullPass ==
    (pass.kind = "full" /\ ~dryRun) =>
        \A l \in DOMAIN out :
            out[l].noteUid # Quote(NoUid) =>
                \E u \in DOMAIN pass.published : out[l].noteUid = Quote(u)

\* C2, its case: a full pass outside dry-run has deleted the output document
\* of a note the store knows and that is not published.
C2_OrphanSwept ==
    /\ pass.kind = "full"
    /\ ~dryRun
    /\ \E d \in pass.deleted : \E u \in DOMAIN notes :
          /\ d.file.noteUid = Quote(u)
          /\ ~notes[u].pub
          /\ u \notin DOMAIN pass.published

\* C3: a full pass that follows a full pass, with no edit of the vault in
\* between, writes nothing to the content tree and deletes nothing from it.
C3_SecondPassIdle ==
    (pass.kind = "full" /\ pass.srcSame) =>
        pass.written = {} /\ pass.deleted = {}

\* C4: when the pass outside dry-run finds a published note at a new source
\* path with its identity and content unchanged, it deletes the output at the
\* location of the old path, the output at the location of the new path is in
\* the content tree, and every other published note is rendered in that pass.
C4_RenameStability ==
    ~dryRun =>
        \A r \in pass.renamed :
            (r.pub /\ r.same) =>
                LET old == generateHugoPath(r.from, r.uid)
                    new == generateHugoPath(r.to, r.uid)
                IN  /\ old \notin DOMAIN out
                    /\ Cardinality({ d \in pass.deleted : d.loc = old }) = 1
                    /\ new \in DOMAIN out
                    /\ \A u \in DOMAIN notes :
                          (notes[u].pub /\ u # r.uid) => notes[u].src \in pass.rendered

\* C5: while the daemon waits for the next event or tick, every link of every
\* output document leads to an output document of the content tree.
C5_NoDanglingLinks ==
    running =>
        \A l \in DOMAIN out :
            out[l].ref.kind = "link" =>
                \E t \in DOMAIN out :
                    RelPath(t) = [dir |-> out[l].ref.dir, file |-> out[l].ref.file]

\* C6: after a full pass outside dry-run, the output of every published note
\* that references a note by name carries a link to the output location of
\* that note if the pass classified it published, and plain text if not.
C6_LinksFollowPublication ==
    (pass.kind = "full" /\ ~dryRun) =>
        \A u \in DOMAIN pass.published :
            LET p == pass.published[u]
                loc == generateHugoPath(p, u)
                targets == { v \in DOMAIN pass.published :
                               Stem(pass.published[v]) = vault[p].link }
            IN  vault[p].link # NoLink =>
                    /\ loc \in DOMAIN out
                    /\ IF targets = {}
                       THEN out[loc].ref.kind = "text"
                       ELSE \E v \in targets :
                               LET dst == RelPath(generateHugoPath(pass.published[v], v))
                               IN  out[loc].ref =
                                       [kind |-> "link", dir |-> dst.dir, file |-> dst.file]

\* C7, as claimed: no document is ever given a second identity, and a document
\* that carries an identity is given none.
C7_OneIdentityPerDocument ==
    \A p \in SrcPaths :
        /\ Cardinality(assigned[p]) <= 1
        /\ (p \in DOMAIN vault /\ vault[p].uid # NoUid) => assigned[p] \subseteq {vault[p].uid}

\* C7: a document whose front-matter carries an identity keeps it and is
\* assigned no other, in every step; an identity assigned in a dry run is not
\* written to the document, and the next pass assigns another one.
C7_UidStable ==
    [][\A p \in DOMAIN vault \cap DOMAIN vault' :
          vault[p].uid # NoUid =>
              /\ vault'[p].uid = vault[p].uid
              /\ assigned'[p] = assigned[p]]_vars

\* C7, its case: the second full pass has processed a document that carries
\* the one identity the daemon assigned and wrote to it.
C7_AssignedUidKept ==
    /\ pass.kind = "full"
    /\ runs = 2
    /\ \E p \in DOMAIN vault :
          /\ assigned[p] = {vault[p].uid}
          /\ vault[p].uid \in DOMAIN notes
          /\ notes[vault[p].uid].src = p

C9_ReferencedAssetKept ==
    pass.kind = "full" =>
        \A e \in pass.sweep :
            (\E u \in DOMAIN pass.published :
                LET p == pass.published[u]
                IN  /\ vault[p].img
                    /\ calculateHugoImagePath(ImageRefPath(p.dir)) = e.path
                    /\ u \in e.refs)
            => e.path \in DOMAIN assets

\* C10, as claimed: the slug of the 50-character title, with an identity that
\* starts with abcd1234, is the first 42 characters of the lowercased name,
\* then -abcd1234, then the extension.
C10_TitleTruncated ==
    (/\ slugCase.state = "slug"
     /\ slugCase.filename \in {C10Title, C10Title \o MD}
     /\ HasPrefix(slugCase.noteUID, Abcd1234))
    => slugCase.slug = SubSeq(ToLower(C10Title), 1, 42) \o <<"-">> \o Abcd1234 \o MD

\* C10: a name of at most 50 characters, the 50-character title among them,
\* is slugged to the whole lowercased name and the extension; a longer name
\* to its first 42 lowercased characters, a hyphen, the first 8 characters of
\* the identity, and the extension.
C10_TruncatedAbove50 ==
    slugCase.state = "slug" =>
        \A n \in NameLens :
            slugCase.filename \in {TitleOfLen(n), TitleOfLen(n) \o MD} =>
                slugCase.slug =
                    IF n <= 50
                    THEN ToLower(TitleOfLen(n)) \o MD
                    ELSE SubSeq(ToLower(LongTitle), 1, 42) \o <<"-">>
                             \o SubSeq(slugCase.noteUID, 1, 8) \o MD

\* C10, its case: createSlug has returned the slug of the 50-character title
\* for an identity that starts with abcd1234.
C10_TitleSlugged ==
    /\ slugCase.state = "slug"
    /\ slugCase.filename = C10Title
    /\ HasPrefix(slugCase.noteUID, Abcd1234)
    /\ slugCase.slug = ToLower(C10Title) \o MD

\* C11: when the key convertWikiLink looks up is not in the slug map, the
\* text that replaces the wikilink is the display text itself, or, with
\* unpublished-link = hash, the display text linked to "#"; no markdown link
\* in it leads anywhere but to "#".
C11_MissNeverLinks ==
    (/\ linkCase.state = "done"
     /\ targetForLookup(linkCase.m1) \notin DOMAIN linkCase.g.slugMap)
    => LET d == displayTextOf(linkCase.m1, linkCase.m2)
           r == linkCase.result
       IN  /\ r = IF linkCase.g.unpublishedLink = "hash"
                  THEN <<"[">> \o d \o <<"]", "(", "#", ")">>
                  ELSE d
           /\ \A i \in 1..(Len(r) - 1) :
                 (r[i] = "]" /\ r[i + 1] = "(") =>
                     /\ i + 3 <= Len(r)
                     /\ r[i + 2] = "#"
                     /\ r[i + 3] = ")"

\* C11, its case: a wikilink with display text to a note that is not in the
\* slug map was converted under unpublished-link = hash.
C11_MissRendered ==
    /\ linkCase.state = "done"
    /\ linkCase.g.unpublishedLink = "hash"
    /\ linkCase.g.slugMap # EmptyMap
    /\ linkCase.m1 = UnpublishedNote \o SectionSuffix
    /\ linkCase.m2 = CustomText
    /\ linkCase.result = <<"[">> \o CustomText \o <<"]", "(", "#", ")">>

\* C12: a call of NeedsSync returns true exactly when the State has no entry
\* for the UID, or the entry's source path is not the path given, or its
\* content hash is not the hash given, or the modification time given is
\* after the entry's last sync; the call changes neither the State nor the
\* state file.
C12_NeedsSyncExact ==
    [][(storeCall'.op = "NeedsSync" /\ storeCall' # storeCall) =>
          /\ storeCall'.result =
                (\/ storeCall'.uid \notin DOMAIN manager.notes
                 \/ LET e == manager.notes[storeCall'.uid]
                    IN  \/ e.src # storeCall'.filePath
                        \/ e.hash # storeCall'.contentHash
                        \/ storeCall'.modTime > e.lastSync)
          /\ manager' = manager
          /\ stateFile' = stateFile
          /\ tempFile' = tempFile]_vars

\* C12, its case: NeedsSync returned false for a note at its recorded path,
\* with its recorded hash, modified at the instant of its last sync.
C12_SyncedNoteSkipped ==
    /\ storeCall.op = "NeedsSync"
    /\ storeCall.result = FALSE
    /\ storeCall.uid \in DOMAIN manager.notes
    /\ storeCall.modTime = manager.notes[storeCall.uid].lastSync

\* C13: NewManager always returns a Manager; when state.json is missing,
\* cannot be read, is no JSON, or holds the State of another version or of
\* another vault, the Manager holds no note and no image.
C13_LoadNeverFails ==
    storeCall.op = "NewManager" =>
        /\ manager.kind = "ready"
        /\ ~(/\ stateFile.kind = "state"
             /\ stateFile.version = stateVersion
             /\ stateFile.vaultHash = VaultHash)
           => (manager.notes = EmptyMap /\ manager.images = EmptyMap)

\* C13, its case: NewManager found the State of another vault, with a note
\* and an image in it, and returned an empty Manager.
C13_ForeignStateRejected ==
    /\ storeCall.op = "NewManager"
    /\ storeCall.err
    /\ stateFile.kind = "state"
    /\ stateFile.vaultHash = OtherVaultHash
    /\ stateFile.notes # EmptyMap
    /\ stateFile.images # EmptyMap
    /\ manager.kind = "ready"
    /\ manager.notes = EmptyMap
    /\ manager.images = EmptyMap

\* C14: state.json never holds a partly written State, whatever the step at
\* which the process stops; when its content changes, the new content is the
\* whole State that Save marshaled.
C14_SaveAtomic ==
    [][/\ stateFile'.kind # "partial"
       /\ stateFile' # stateFile =>
             (manager.kind = "ready" /\ manager.data.kind = "state"
                 /\ stateFile' = manager.data)]_vars

\* C14, its case: the process stopped while Save was writing state.json.tmp;
\* state.json.tmp is partly written and state.json holds the whole State of
\* the previous Save.
C14_CrashedWhileWriting ==
    /\ storeCall.op = "Crash"
    /\ storeCall.pc = "writing"
    /\ tempFile.kind = "partial"
    /\ stateFile.kind = "state"
    /\ stateFile.notes # EmptyMap
    /\ stateFile # storeCall.data

\* C15: when Save fails, the store in memory stays exactly what it was when
\* Save was called, the pass is not aborted and the daemon goes on; and a pass
\* whose Save succeeds leaves the whole store of the memory in the state file,
\* whatever earlier Saves failed to write.
C15_SaveFailureKeepsMemory ==
    /\ pass.saveFailed =>
         /\ notes = pass.store.notes
         /\ images = pass.store.images
         /\ ~pass.aborted
         /\ running
    /\ ("save" \in pass.steps /\ ~pass.saveFailed) =>
         saved = [notes |-> notes, images |-> images]

\* a Save failed and the state file is behind the store in memory
C15_SaveFailed ==
    /\ pass.saveFailed
    /\ running
    /\ saved # [notes |-> notes, images |-> images]
    /\ DOMAIN notes # {}

\* C16: a note that fails in a full pass (in processNote or when its content
\* is regenerated) does not abort the pass: every note of the vault is handed
\* to processNote, and the image sweep, the repairs and Save of the pass run.
C16_FullPassSurvivesFailure ==
    (pass.kind = "full" /\ pass.failed # {}) =>
        /\ ~pass.aborted
        /\ pass.seen = DOMAIN vault
        /\ {"images", "repair", "save"} \subseteq pass.steps

\* C17: when processNote returns an error for a note, the store entries of
\* that note (by identity and by source path) are what they were before the
\* call; after a notification whose processing failed, they still are.
C17_FailedNoteKeepsEntry ==
    \A f \in pass.failed :
        f.phase = "process" =>
            /\ f.after = f.before
            /\ pass.kind = "event" => EntriesOf(notes, f.path, f.uid) = f.before

\* processing failed for a note that has an entry in the store
C17_KnownNoteFailed ==
    \E f \in pass.failed :
        /\ f.phase = "process"
        /\ pass.kind = "event"
        /\ DOMAIN f.before # {}
        /\ f.path \in DOMAIN vault

\* C18: when the daemon stops on cancellation, the state file holds the store
\* of the memory: every change the handled notifications made to the store since
\* the last Save is on disk when Start returns.
C18_StoreSavedOnShutdown ==
    [][(running /\ ~running') => saved' = [notes |-> notes, images |-> images]]_vars

\* C19: once cancel() has been called, the loop starts neither handleFileEvent
\* nor performIncrementalSync: the only step the daemon still takes is its exit.
C19_NoStepAfterCancel ==
    [][(cancelled /\ running) => pass'.kind \notin {"event", "tick"}]_vars

\* C20: the loop handles its inputs in arrival order: handleFileEvent takes
\* the oldest queued notification, and a tick that fired behind queued
\* notifications is handled only once all of them have been handled.
C20_ArrivalOrder ==
    [][/\ pass'.kind = "event" =>
            /\ Len(queue') >= Len(queue) - 1
            /\ SubSeq(queue', 1, Len(queue) - 1) = Tail(queue)
       /\ (pass'.kind = "tick" /\ ticked.fired) => ticked.ahead = 0]_vars

\* C21: processing and every access to the store, the image references and
\* the slug map happen in the goroutine of the dispatch loop, one step at a
\* time: whatever the watcher goroutine, the ticker and the signal goroutine
\* do meanwhile, no second goroutine is inside a processing step.
C21_OneStepAtATime ==
    threads.state = "run" =>
        /\ threads.busy \subseteq {"loop"}
        /\ ("loop" \in threads.busy) <=> (threads.loop \in {"fullsync", "event", "tick"})

\* a step of the loop is in progress while the watcher goroutine holds a
\* notification, a tick waits and cancel() has been called
C21_StepAmongOthers ==
    /\ threads.state = "run"
    /\ threads.loop = "event"
    /\ threads.watcher = "send"
    /\ threads.tick
    /\ threads.ctxDone

\* C22: in dry-run mode no step of the daemon (full pass, notification, tick)
\* writes, creates or deletes a file of the content tree, of the copied images
\* or of the vault.
C22_DryRunWritesNothing ==
    [][(dryRun' /\ pass'.kind \in {"full", "event", "tick"}) =>
            /\ out' = out
            /\ assets' = assets
            /\ vault' = vault]_vars

\* C23: when the daemon processes a note whose publish marker was removed, in
\* a full pass or for a notification, the file rendered for that note before
\* is no longer in the content tree when the step is done.
C23_UnpublishedOutputGone ==
    [][\A p \in DOMAIN vault' :
          (/\ p \in DOMAIN vault
           /\ vault[p].uid # NoUid
           /\ ~vault'[p].pub
           /\ p \in pass'.seen
           /\ pass'.kind \in {"full", "event"}
           /\ ~dryRun')
          => generateHugoPath(p, vault[p].uid) \notin DOMAIN out']_vars

\* C24: a section of the content tree, with its _index.md, is there exactly
\* while it holds a document: every document outside the content root has the
\* _index.md of its section beside it, and no _index.md is left in a section
\* without a document.
C24_SectionsHoldDocuments ==
    /\ \A l \in DOMAIN out :
          (l.file # IndexName /\ l.dir # RootDir) =>
              [dir |-> l.dir, file |-> IndexName] \in DOMAIN out
    /\ \A l \in DOMAIN out :
          l.file = IndexName =>
              \E m \in DOMAIN out : m.dir = l.dir /\ m.file # IndexName

\* C25: at most one live process holds the lock of a vault, however the
\* system calls of AcquireLock and ReleaseLock of the processes interleave,
\* with or without a stale lock file at the start.
C25_OneLockHolder ==
    lock.state = "run" =>
        \A p, q \in Procs : (lock.proc[p] = "holding" /\ lock.proc[q] = "holding") => p = q

\* C26: rendering is deterministic: for every published note of the vault, two
\* renders of the note as it is, against the slug map as it is, at any two
\* moments up to now, give the same serialized file.
C26_RenderDeterministic ==
    \A p \in DOMAIN vault :
        (vault[p].pub /\ vault[p].uid # NoUid) =>
            \A t1, t2 \in 0..now :
                GenerateContent(slugMap, ParseNote(vault, p), t1).file
                    = GenerateContent(slugMap, ParseNote(vault, p), t2).file

\* C27: when the notification handled is that of a note the store knows under
\* another source path (a rename) or with the other publish status (a flip),
\* needsLinkUpdate is set when handleFileEvent returns.
C27_FlipOrRenameFlags ==
    [][(pass'.kind = "event" /\ running /\ queue # <<>>) =>
          LET e == Head(queue)
          IN  (/\ e.op \in {"Create", "Write"}
               /\ e.path \in DOMAIN vault
               /\ vault[e.path].uid \in DOMAIN notes
               /\ \/ notes[vault[e.path].uid].pub # vault[e.path].pub
                  \/ notes[vault[e.path].uid].src # e.path)
              => needsLinkUpdate']_vars

C29_RenderedAgainstCurrentSet ==
    (pass.kind = "event" /\ running /\ ~dryRun) =>
        LET publishedNotes == StatePublishedNotes([notes |-> notes, vault |-> vault])
        IN  \A u \in DOMAIN publishedNotes :
                LET note == publishedNotes[u]
                    loc == generateHugoPath(note.path, note.uid)
                IN  (note.uid = u /\ loc \in DOMAIN out) =>
                        \E order \in Orders(DOMAIN publishedNotes) :
                            out[loc].ref =
                                convertWikiLink(UpdateSlugMap(publishedNotes, order), note.link)

\* C30: the identity read back from an output document that Serialize wrote
\* for a note of the store is the UID Serialize embedded in it, so the
\* document is recognised as that note's.
C30_IdentityRoundTrip ==
    \A loc \in DOMAIN out :
        \A u \in DOMAIN notes :
            (out[loc] = Serialize(SubSeq(out[loc].title, 2, Len(out[loc].title) - 1),
                                  out[loc].weight, u, out[loc].lastUpdated, out[loc].ref))
                => extractNoteUidFromHugoFile(out[loc]) = u

\* the body as it is to be rendered: a wikilink that stands on its own is
\* converted, every code block, code span and explicit link stays as written,
\* and example shortcodes are escaped
RenderedAsWritten(segs) ==
    escapeExampleShortcodes(
        Flatten([i \in DOMAIN segs |-> IF segs[i] = <<WikiLink>> THEN <<Converted>> ELSE segs[i]]))

IsPlaceholder(t) ==
    t.k \in {"__MARKDOWN_LINK_%d__", "__CODE_BLOCK_%d__", "__INLINE_CODE_%d__"}

\* C31: in the rendered body every fenced code block, inline code span and
\* explicit link stands as it was written, wikilinks inside them are not
\* converted, and no placeholder is left, also for an explicit link inside a
\* code block.
C31_ProtectedSpansVerbatim ==
    bodyCase.state = "rendered" =>
        /\ \A i \in DOMAIN bodyCase.rendered : ~IsPlaceholder(bodyCase.rendered[i])
        /\ bodyCase.rendered = RenderedAsWritten(bodyCase.segments)

\* C32: when a key is the file name (without extension) of one published note
\* and of no other, and the title of another published note, a wikilink to
\* the key leads to the output of the note with that file name, whatever the
\* order in which the slug map was built.
C32_StemBeforeTitle ==
    mapCase.state = "built" =>
        \A u \in DOMAIN mapCase.publishedNotes : \A v \in DOMAIN mapCase.publishedNotes :
            LET x == mapCase.publishedNotes[u]
                y == mapCase.publishedNotes[v]
            IN  (/\ u # v /\ x.pub /\ y.pub
                 /\ Stem(x.path) = mapCase.target
                 /\ Stem(y.path) # mapCase.target
                 /\ y.title = mapCase.target)
                => LET relPath == RelPath(generateHugoPath(x.path, x.uid))
                   IN  mapCase.ref = [kind |-> "link", dir |-> relPath.dir, file |-> relPath.file]

\* C34: two different published notes never get the same output location:
\* neither note's output overwrites the other's.
C34_OutputLocationsDiffer ==
    mapCase.state = "built" =>
        \A u \in DOMAIN mapCase.publishedNotes : \A v \in DOMAIN mapCase.publishedNotes :
            LET x == mapCase.publishedNotes[u]
                y == mapCase.publishedNotes[v]
            IN  (u # v /\ x.pub /\ y.pub /\ x.path # y.path)
                => generateHugoPath(x.path, x.uid) # generateHugoPath(y.path, y.uid)

\* the normalised stem of a file name: lowercase, every run of characters
\* other than a-z and 0-9 one hyphen, no hyphen at either end
NormalisedStem(filename) ==
    TrimHyphens(ReplaceNonSlugRuns(ToLower(TrimSuffix(filename, MD))))

\* the first n characters of s, all of s when it is shorter
FirstChars(s, n) == IF Len(s) < n THEN s ELSE SubSeq(s, 1, n)

\* C33: for every file name and every non-empty UID createSlug returns, and
\* returns a non-empty name of slug characters: "untitled" when the
\* normalised stem is empty, the normalised stem when it has at most 50
\* characters, else its first 42 characters, a hyphen and the first 8
\* characters of the UID; the extension follows.
C33_SlugTotal ==
    (slugCase.state \in {"slug", "panic"} /\ slugCase.noteUID # <<>>) =>
        LET stem == NormalisedStem(slugCase.filename)
            name == TrimSuffix(slugCase.slug, MD)
        IN  /\ slugCase.state = "slug"
            /\ name # <<>>
            /\ \A i \in DOMAIN name : IsSlugChar(name[i]) \/ name[i] = "-"
            /\ slugCase.slug =
                  (IF stem = <<>> THEN Untitled
                   ELSE IF Len(stem) <= 50 THEN stem
                   ELSE SubSeq(stem, 1, 42) \o <<"-">> \o FirstChars(slugCase.noteUID, 8)) \o MD

C36_GoneEntriesDeleted ==
    [][/\ (/\ running /\ queue # <<>>
           /\ Head(queue).op \in {"Remove", "Rename"}
           /\ pass'.kind = "event")
          => \A u \in DOMAIN notes' : notes'[u].src # Head(queue).path
       /\ (pass'.kind = "full" /\ ~pass'.aborted)
          => \A u \in DOMAIN notes' : notes'[u].src \in pass'.seen]_vars

\* C37: the output location recorded in the store entry of a published note
\* is the location at which the generator writes the note's output.
C37_RecordedLocationIsWritten ==
    \A u \in DOMAIN notes :
        notes[u].pub => notes[u].hugo = generateHugoPath(notes[u].src, u)

\* C38: once the daemon, outside dry-run, has handled every notification,
\* each pair of an image and a UID in the image references of the store
\* belongs to a note of the vault with that UID that is published and
\* references the image.
C38_ReferencesOfPublishedNotes ==
    (running /\ ~dryRun /\ queue = <<>> /\ pass.kind \in {"full", "event", "tick"}) =>
        \A imagePath \in DOMAIN images :
            \A u \in Range(images[imagePath]) :
                \E p \in DOMAIN vault :
                    /\ vault[p].uid = u
                    /\ vault[p].pub
                    /\ imagePath \in ExtractImageReferences([path |-> p, img |-> vault[p].img])

\* C39: while the vault has not been edited since the daemon started, a step
\* of the daemon writes nothing into the vault; handling a notification (those
\* of the daemon's own write-back of noteUid and weight) takes it from the
\* queue and queues no other; nothing but a rename sets the flag of the
\* deferred regeneration; and once the queue is empty and the flag clear, a
\* step writes and deletes nothing in the content tree.
C39_Quiesces ==
    [][(running /\ running' /\ ~srcChanged /\ ~srcChanged') =>
          /\ vault' = vault
          /\ pass'.kind = "event" => queue' = Tail(queue)
          /\ pass'.kind = "tick" => queue' = queue
          /\ needsLinkUpdate' => needsLinkUpdate
          /\ (queue = <<>> /\ ~needsLinkUpdate) =>
                /\ pass'.written = {} /\ pass'.deleted = {}
                /\ out' = out /\ assets' = assets]_vars

\* C39, its case: the daemon has written noteUid and weight back in its full
\* pass and has handled the notification of that write; the deferred
\* regeneration is done, and a tick has come that wrote nothing.
C39_QuietAfterWriteBack ==
    /\ running /\ ~dryRun /\ ~srcChanged
    /\ queue = <<>> /\ ~needsLinkUpdate
    /\ pass.kind = "tick" /\ pass.written = {} /\ pass.deleted = {}
    /\ \E p \in DOMAIN vault : Cardinality(assigned[p]) = 1 /\ vault[p].uid \in assigned[p]
    /\ \E u \in DOMAIN notes : notes[u].pub /\ generateHugoPath(notes[u].src, u) \in DOMAIN out

\* C40: a full pass leaves every file of the content tree that carries no
\* noteUid, and every section index _index.md, as it was: the repair sweep
\* deletes none of them.
C40_OwnPagesUntouched ==
    [][pass'.kind = "full" =>
          \A l \in DOMAIN out :
              (extractNoteUidFromHugoFile(out[l]) = <<>> \/ HasSuffix(l.file, IndexName))
              => (l \in DOMAIN out' /\ out'[l] = out[l])]_vars

====
